---------------------------- MODULE Spec2Model ----------------------------
(***************************************************************************)
(* Model of the transaction ingestion engine of stori-challenge:           *)
(*   internal/infrastructure/csv/reader.go  (Reader)                       *)
(*   internal/service/calculator.go         (Calculator)                   *)
(*   internal/repository/sqlite/account.go  (transactionRepository)        *)
(*   internal/service/processor.go          (Processor)                    *)
(* Strings are sequences of one-character strings, so that trimming,       *)
(* prefix tests, splitting and numeric parsing work on the characters as   *)
(* the Go code does.                                                       *)
(***************************************************************************)
EXTENDS Integers, Sequences, FiniteSets, TLC

VARIABLES
    now,            \* the calendar year time.Now().Year() returns
    amountIn,      \* argument of a parseAmount call
    amountRet,      \* its result, or Pending before the call
    dateIn,        \* argument of a parseDate call
    dateRet,        \* its result, or Pending before the call
    recordIn,       \* argument of an isHeaderRow or parseTransaction call
    headerRet,      \* result of the isHeaderRow call, or Pending
    txRet,          \* result of the parseTransaction call, or Pending
    source,         \* what opening filePath yields: "ok" or "openFail"
    lines,          \* the lines of the opened stream
    pos,            \* number of lines the csv reader has consumed
    lineNumber,     \* ReadTransactions' lineNumber
    transactions,   \* ReadTransactions' transactions slice
    pc,             \* position of ReadTransactions: "idle", "open", "loop", "done"
    ret,            \* what ReadTransactions returned
    calcArgs,       \* accountID and transactions handed to CalculateSummary
    calcRets,       \* what the calls of CalculateSummary returned, in order
    formatArg,      \* the AccountSummary handed to FormatSummaryForEmail
    formatRets,     \* what the calls of FormatSummaryForEmail returned, in order
    db,             \* the database: the rows of accounts and of transactions
    storeArg,       \* transactions and accountEmail of the last CreateBatch call
    storeErr,       \* the error that call returned
    storeCalls,     \* number of CreateBatch calls made on the repository
    repo,           \* whether Processor.transactionRepo is not nil
    filePaths,      \* the files ProcessBatch is called with
    fileIndex,      \* how many of them the loop has handed to ProcessFile
    procPc,         \* position of ProcessBatch and ProcessFile
    procTxs,        \* ProcessFile's transactions
    procBody,       \* ProcessFile's emailBody
    procCalls,      \* the calls ProcessFile made to its collaborators, in order
    batchRet        \* what ProcessBatch returned

vars == <<now, amountIn, amountRet, dateIn, dateRet,
          recordIn, headerRet, txRet,
          source, lines, pos, lineNumber, transactions, pc, ret,
          calcArgs, calcRets, formatArg, formatRets,
          db, storeArg, storeErr, storeCalls, repo, filePaths, fileIndex, procPc,
          procTxs, procBody, procCalls, batchRet>>

Pending == [pending |-> TRUE]

(***************************************************************************)
(* Bounds of the model.                                                    *)
(***************************************************************************)
MaxAmountLen == 4     \* amount strings of every length up to this are tried
MaxDateLen == 4       \* date strings of every length up to this are tried
MaxRows == 3          \* streams of up to this many lines are tried

(***************************************************************************)
(* Characters and strings.                                                 *)
(***************************************************************************)
Digits == {"0", "1", "2", "3", "4", "5", "6", "7", "8", "9"}

IsDigit(c) == c \in Digits

DigitVal(c) ==
    CASE c = "0" -> 0 [] c = "1" -> 1 [] c = "2" -> 2 [] c = "3" -> 3
      [] c = "4" -> 4 [] c = "5" -> 5 [] c = "6" -> 6 [] c = "7" -> 7
      [] c = "8" -> 8 [] c = "9" -> 9

\* unicode.IsSpace, restricted to the white space the inputs contain
IsSpace(c) == c \in {" ", "\t"}

RECURSIVE TrimLeft(_)
TrimLeft(s) ==
    IF s # <<>> /\ IsSpace(Head(s)) THEN TrimLeft(Tail(s)) ELSE s

RECURSIVE TrimRight(_)
TrimRight(s) ==
    IF s # <<>> /\ IsSpace(s[Len(s)])
    THEN TrimRight(SubSeq(s, 1, Len(s) - 1))
    ELSE s

\* strings.TrimSpace
TrimSpace(s) == TrimRight(TrimLeft(s))

\* strings.HasPrefix(s, c) for a one-character prefix
HasPrefix(s, c) == s # <<>> /\ Head(s) = c

\* strings.TrimPrefix(s, c) for a one-character prefix
TrimPrefix(s, c) == IF HasPrefix(s, c) THEN Tail(s) ELSE s

RECURSIVE Pow10(_)
Pow10(n) == IF n = 0 THEN 1 ELSE 10 * Pow10(n - 1)

AbsInt(n) == IF n < 0 THEN -n ELSE n

\* every string over alphabet of length at most n
StringsUpTo(alphabet, n) == UNION {[1..k -> alphabet] : k \in 0..n}

(***************************************************************************)
(* strconv.ParseInt(s, 10, _): an optional sign, then one or more digits.  *)
(***************************************************************************)
RECURSIVE DigitsValue(_)
DigitsValue(s) ==
    IF s = <<>> THEN 0
    ELSE 10 * DigitsValue(SubSeq(s, 1, Len(s) - 1)) + DigitVal(s[Len(s)])

ParseInt(s) ==
    LET signed == s # <<>> /\ Head(s) \in {"+", "-"}
        body   == IF signed THEN Tail(s) ELSE s
    IN  IF body = <<>> \/ \E i \in 1..Len(body) : ~IsDigit(body[i])
        THEN [ok |-> FALSE, n |-> 0]
        ELSE [ok |-> TRUE,
              n  |-> IF signed /\ Head(s) = "-" THEN -DigitsValue(body)
                                                 ELSE DigitsValue(body)]

(***************************************************************************)
(* shopspring/decimal: a Decimal is value * 10^exp.                        *)
(***************************************************************************)
Dec(v, e) == [value |-> v, exp |-> e]

\* decimal.Zero, which the library defines as New(0, 1)
DecZero == Dec(0, 1)

\* index of the first character of s in set, 0 when there is none
\* (strings.IndexAny, 1-based)
IndexAny(s, set) ==
    IF \E i \in 1..Len(s) : s[i] \in set
    THEN CHOOSE i \in 1..Len(s) :
            s[i] \in set /\ \A j \in 1..(i - 1) : s[j] \notin set
    ELSE 0

\* decimal.NewFromString: an optional e/E exponent is split off and parsed
\* as an integer, at most one "." is allowed and removed, the remaining
\* characters are parsed as a signed integer, exp is the exponent minus the
\* number of characters after the point.
NewFromString(str) ==
    LET eIndex   == IndexAny(str, {"e", "E"})
        expPart  == IF eIndex = 0 THEN [ok |-> TRUE, n |-> 0]
                    ELSE ParseInt(SubSeq(str, eIndex + 1, Len(str)))
        value    == IF eIndex = 0 THEN str ELSE SubSeq(str, 1, eIndex - 1)
        points   == {i \in 1..Len(value) : value[i] = "."}
        pIndex   == IndexAny(value, {"."})
        intString == IF pIndex = 0 THEN value
                     ELSE SubSeq(value, 1, pIndex - 1)
                            \o SubSeq(value, pIndex + 1, Len(value))
        fracLen  == IF pIndex = 0 THEN 0 ELSE Len(value) - pIndex
        parsed   == ParseInt(intString)
    IN  IF ~expPart.ok \/ Cardinality(points) > 1 \/ ~parsed.ok
        THEN [ok |-> FALSE, d |-> DecZero]
        ELSE [ok |-> TRUE, d |-> Dec(parsed.n, expPart.n - fracLen)]

\* Decimal.Abs
DecAbs(d) == Dec(AbsInt(d.value), d.exp)

\* Decimal.Neg
DecNeg(d) == Dec(-d.value, d.exp)

\* Decimal.Sign
DecSign(d) == IF d.value < 0 THEN -1 ELSE IF d.value > 0 THEN 1 ELSE 0

\* maxAmount := decimal.NewFromFloat(1000000)
MaxAmount == 1000000

\* d.Abs().GreaterThan(maxAmount): the exact comparison of |value| * 10^exp
\* with MaxAmount, arranged so that no intermediate exceeds the integers
\* of the model checker
AbsGreaterThanMax(d) ==
    LET v == AbsInt(d.value)
    IN  IF v = 0 THEN FALSE
        ELSE IF d.exp >= 0
             THEN IF d.exp > 6 THEN TRUE
                  ELSE v > MaxAmount \div Pow10(d.exp)
        ELSE IF -d.exp > 9 THEN FALSE
             ELSE LET p == Pow10(-d.exp)
                  IN  (v \div p) > MaxAmount
                        \/ ((v \div p) = MaxAmount /\ (v % p) > 0)
(***************************************************************************)
(* Reader.parseAmount                                                      *)
(***************************************************************************)
Credit == "credit"
Debit == "debit"

NoErr == "nil"

\* return decimal.Zero, "", fmt.Errorf(msg)
AmountFail(msg) == [err |-> msg, amount |-> DecZero, type |-> ""]

\* the sign test: a leading "+" is a credit, a leading "-" a debit, no
\* sign a credit; the sign character is removed from the numeric string
SignSplit(amountStr) ==
    IF HasPrefix(amountStr, "+")
    THEN [type |-> Credit, numericStr |-> TrimPrefix(amountStr, "+")]
    ELSE IF HasPrefix(amountStr, "-")
    THEN [type |-> Debit, numericStr |-> TrimPrefix(amountStr, "-")]
    ELSE [type |-> Credit, numericStr |-> amountStr]

NormalizeSignNoAbs(amount, type) ==
    IF type = Debit THEN DecNeg(amount) ELSE amount

\* amount = amount.Abs(); if Debit { amount = amount.Neg() }
NormalizeSign(amount, type) ==
    IF type = Debit THEN DecNeg(DecAbs(amount)) ELSE DecAbs(amount)

\* amount.Abs().GreaterThan(maxAmount)
ExceedsLimit(amount) == AbsGreaterThanMax(amount)

\* amount.Exponent() < -2
ScaleExceeded(amount) == amount.exp < -2

parseAmount(str) ==
    LET amountStr == TrimSpace(str)
    IN  IF amountStr = <<>> THEN AmountFail("amount cannot be empty")
        ELSE
        LET split  == SignSplit(amountStr)
            parsed == NewFromString(split.numericStr)
        IN  IF ~parsed.ok THEN AmountFail("invalid numeric amount")
            ELSE
            LET amount == NormalizeSign(parsed.d, split.type)
            IN  IF ExceedsLimit(amount)
                THEN AmountFail("amount exceeds maximum limit")
                ELSE IF ScaleExceeded(amount)
                THEN AmountFail("amount has too many decimal places (max 2)")
                ELSE [err |-> NoErr, amount |-> amount, type |-> split.type]

\* the characters amount strings are built from
AmountAlphabet == {"+", "-", "0", "1", "5", ".", "e", " "}

\* longer amount strings: the examples of the tests and the limits
LongAmounts ==
    { <<"+", "6", "0", ".", "5">>,
      <<"-", "1", "0", ".", "3">>,
      <<"1", "0", "0">>,
      <<"-", "2", "0", ".", "4", "6">>,
      <<"+", "1", "0">>,
      <<"+", "1", "0", "0", ".", "5", "0">>,
      <<"-", "7", "5", ".", "2", "5">>,
      <<"1", "2", "3", ".", "4", "5">>,
      <<"1", "0", "0", "0", "0", "0", "0">>,
      <<"1", "0", "0", "0", "0", "0", "0", ".", "0", "0">>,
      <<"-", "1", "0", "0", "0", "0", "0", "0">>,
      <<"1", "0", "0", "0", "0", "0", "0", ".", "0", "1">>,
      <<"1", "0", "0", "0", "0", "0", "1">>,
      <<"1", "0", "0", ".", "1", "2", "3">>,
      <<"1", "0", "0", "0", "0", "0", "0", ".", "0", "0", "1">>,
      <<"-", "1", "0", "0", "0", "0", "0", "0", ".", "0", "0", "1">>,
      <<"1", ".", "2", "3", "4", "e", "1">>,
      <<" ", " ", "+", "5", "0", ".", "2", "5", " ", " ">>,
      <<"+", "-", "6", "0", ".", "5">>,
      <<"-", "-", "1", "0", ".", "3">>,
      <<"-", "+", "1", "0", ".", "3">>,
      <<"a", "b", "c">>,
      <<"1", ".", "5", ".", "5">>,
      <<"-", "0", ".", "0", "0">>,
      <<"9", "9", "9", "9", "9", "9", ".", "9", "9">>,
      <<"1", "0", "0", "e", "-", "2">>,
      <<"1", "e", "-", "3">>,
      <<"0", ".", "0", "0", "1">> }

AmountInputs == StringsUpTo(AmountAlphabet, MaxAmountLen) \cup LongAmounts
(***************************************************************************)
(* time.Parse for the layouts parseDate uses.  A layout is the sequence of *)
(* its elements: a month, day or year element, or a literal character.     *)
(***************************************************************************)
stdNumMonth == "stdNumMonth"      \* "1"
stdZeroMonth == "stdZeroMonth"    \* "01"
stdDay == "stdDay"                \* "2"
stdZeroDay == "stdZeroDay"        \* "02"
stdLongYear == "stdLongYear"      \* "2006"

\* the formats slice of parseDate, in its order
formats ==
    << <<stdNumMonth, "/", stdDay>>,                        \* "1/2"
       <<stdNumMonth, "/", stdZeroDay>>,                    \* "1/02"
       <<stdZeroMonth, "/", stdDay>>,                       \* "01/2"
       <<stdZeroMonth, "/", stdZeroDay>>,                   \* "01/02"
       <<stdNumMonth, "/", stdDay, "/", stdLongYear>>,      \* "1/2/2006"
       <<stdNumMonth, "/", stdZeroDay, "/", stdLongYear>>,  \* "1/02/2006"
       <<stdZeroMonth, "/", stdDay, "/", stdLongYear>>,     \* "01/2/2006"
       <<stdZeroMonth, "/", stdZeroDay, "/", stdLongYear>>, \* "01/02/2006"
       <<stdLongYear, "-", stdZeroMonth, "-", stdZeroDay>>, \* "2006-01-02"
       <<stdLongYear, "/", stdZeroMonth, "/", stdZeroDay>> >> \* "2006/01/02"

\* time.getnum: one or two digits, exactly two when fixed
getnum(s, fixed) ==
    IF s = <<>> \/ ~IsDigit(s[1]) THEN [ok |-> FALSE, n |-> 0, rest |-> s]
    ELSE IF Len(s) < 2 \/ ~IsDigit(s[2])
         THEN IF fixed THEN [ok |-> FALSE, n |-> 0, rest |-> s]
              ELSE [ok |-> TRUE, n |-> DigitVal(s[1]), rest |-> Tail(s)]
    ELSE [ok |-> TRUE, n |-> 10 * DigitVal(s[1]) + DigitVal(s[2]),
          rest |-> Tail(Tail(s))]

\* time.isLeap
isLeap(year) == year % 4 = 0 /\ (year % 100 # 0 \/ year % 400 = 0)

\* time.daysIn
daysIn(month, year) ==
    IF month = 2 THEN (IF isLeap(year) THEN 29 ELSE 28)
    ELSE IF month \in {4, 6, 9, 11} THEN 30 ELSE 31

DateFail == [ok |-> FALSE, year |-> 0, month |-> 0, day |-> 0]

\* the element loop of time.Parse: each element consumes its part of value;
\* after the last one value must be empty and the day must exist in the
\* month of the parsed year (year 0 when the layout has no year)
RECURSIVE ParseElements(_, _, _)
ParseElements(layout, value, acc) ==
    IF layout = <<>>
    THEN IF value # <<>> \/ acc.day < 1 \/ acc.day > daysIn(acc.month, acc.year)
         THEN DateFail
         ELSE acc
    ELSE
    LET std == Head(layout)
    IN  IF std \in {stdNumMonth, stdZeroMonth}
        THEN LET g == getnum(value, std = stdZeroMonth)
             IN  IF ~g.ok \/ g.n <= 0 \/ g.n > 12 THEN DateFail
                 ELSE ParseElements(Tail(layout), g.rest,
                                    [acc EXCEPT !.month = g.n])
        ELSE IF std \in {stdDay, stdZeroDay}
        THEN LET g == getnum(value, std = stdZeroDay)
             IN  IF ~g.ok THEN DateFail
                 ELSE ParseElements(Tail(layout), g.rest,
                                    [acc EXCEPT !.day = g.n])
        ELSE IF std = stdLongYear
        THEN IF Len(value) < 4 \/ \E i \in 1..4 : ~IsDigit(value[i])
             THEN DateFail
             ELSE ParseElements(Tail(layout), SubSeq(value, 5, Len(value)),
                    [acc EXCEPT !.year = DigitsValue(SubSeq(value, 1, 4))])
        ELSE IF value # <<>> /\ Head(value) = std
             THEN ParseElements(Tail(layout), Tail(value), acc)
             ELSE DateFail

\* time.Parse(format, dateStr)
timeParse(format, dateStr) ==
    ParseElements(format, dateStr,
                  [ok |-> TRUE, year |-> 0, month |-> 1, day |-> 1])

\* time.Date: a day past the end of the month runs into the next month
timeDate(year, month, day) ==
    IF day > daysIn(month, year)
    THEN IF month = 12
         THEN [ok |-> TRUE, year |-> year + 1, month |-> 1,
               day |-> day - daysIn(month, year)]
         ELSE [ok |-> TRUE, year |-> year, month |-> month + 1,
               day |-> day - daysIn(month, year)]
    ELSE [ok |-> TRUE, year |-> year, month |-> month, day |-> day]

\* Time.AddDate(years, 0, 0)
AddYears(date, years) == timeDate(date.year + years, date.month, date.day)

\* date.Year() == 0
YearMissing(date) == date.year = 0

(***************************************************************************)
(* Reader.parseDate: the first format that parses wins; a date of year 0   *)
(* is moved to the current year.                                           *)
(***************************************************************************)
RECURSIVE parseDateFrom(_, _, _)
parseDateFrom(i, dateStr, currentYear) ==
    IF i > Len(formats) THEN DateFail
    ELSE LET date == timeParse(formats[i], dateStr)
         IN  IF date.ok
             THEN IF YearMissing(date) THEN AddYears(date, currentYear)
                                       ELSE date
             ELSE parseDateFrom(i + 1, dateStr, currentYear)

parseDate(dateStr, currentYear) == parseDateFrom(1, dateStr, currentYear)

\* the years time.Now().Year() is tried with: a common year and a leap year
CurrentYears == {2023, 2024}

\* the characters date strings are built from
DateAlphabet == {"0", "1", "2", "3", "9", "/"}

\* longer date strings: the examples of the tests, every layout, year 0000
LongDates ==
    { <<"0", "7", "/", "1", "5">>,
      <<"7", "/", "1", "5">>,
      <<"7", "/", "5">>,
      <<"7", "/", "2", "8">>,
      <<"8", "/", "2">>,
      <<"8", "/", "1", "3">>,
      <<"4", "/", "3", "1">>,
      <<"0", "2", "/", "2", "9">>,
      <<"0", "7", "/", "1", "5", "/", "2", "0", "2", "3">>,
      <<"7", "/", "5", "/", "2", "0", "2", "3">>,
      <<"2", "0", "2", "3", "-", "0", "7", "-", "1", "5">>,
      <<"2", "0", "2", "3", "/", "0", "7", "/", "1", "5">>,
      <<"i", "n", "v", "a", "l", "i", "d">>,
      <<"2", "/", "2", "9", "/", "2", "0", "2", "4">>,
      <<"2", "/", "2", "9", "/", "2", "0", "2", "3">>,
      <<"0", "1", "/", "0", "2", "/", "0", "0", "0", "0">>,
      <<"0", "2", "/", "2", "9", "/", "0", "0", "0", "0">>,
      <<"0", "0", "0", "0", "-", "0", "1", "-", "0", "2">>,
      <<"1", "2", "/", "3", "1", "/", "1", "9", "9", "9">>,
      <<"2", "0", "2", "4", "-", "0", "2", "-", "2", "9">>,
      <<"2", "0", "2", "3", "-", "0", "2", "-", "2", "9">>,
      <<"1", "3", "/", "0", "1", "/", "2", "0", "2", "3">>,
      <<"2", "0", "2", "3", "-", "7", "-", "1", "5">>,
      <<"7", "/", "1", "5", "/", "2", "3">>,
      <<"2", "/", "2", "9", "/", "1", "9", "0", "0">>,
      <<"0", "2", "-", "2", "9">> }

DateInputs == StringsUpTo(DateAlphabet, MaxDateLen) \cup LongDates
(***************************************************************************)
(* strings.ToLower, strings.Split on ",", strconv.Atoi                     *)
(***************************************************************************)
LowerOf ==
        ("A" :> "a") @@ ("B" :> "b") @@ ("C" :> "c") @@ ("D" :> "d") @@
        ("E" :> "e") @@ ("F" :> "f") @@ ("G" :> "g") @@ ("H" :> "h") @@
        ("I" :> "i") @@ ("J" :> "j") @@ ("K" :> "k") @@ ("L" :> "l") @@
        ("M" :> "m") @@ ("N" :> "n") @@ ("O" :> "o") @@ ("P" :> "p") @@
        ("Q" :> "q") @@ ("R" :> "r") @@ ("S" :> "s") @@ ("T" :> "t") @@
        ("U" :> "u") @@ ("V" :> "v") @@ ("W" :> "w") @@ ("X" :> "x") @@
        ("Y" :> "y") @@ ("Z" :> "z")

ToLower(s) ==
    [i \in 1..Len(s) |-> IF s[i] \in DOMAIN LowerOf THEN LowerOf[s[i]] ELSE s[i]]

\* strconv.Atoi succeeds
AtoiOk(s) == ParseInt(s).ok

RECURSIVE SplitComma(_)
SplitComma(line) ==
    LET i == IndexAny(line, {","})
    IN  IF i = 0 THEN <<line>>
        ELSE <<SubSeq(line, 1, i - 1)>>
                \o SplitComma(SubSeq(line, i + 1, Len(line)))

(***************************************************************************)
(* encoding/csv Reader with FieldsPerRecord = 3.  Blank lines are ignored; *)
(* a line is split at its commas; a quote inside an unquoted field is      *)
(* ErrBareQuote; a record of another field count is ErrFieldCount.  The    *)
(* lines of the model hold no quoted field.                                *)
(***************************************************************************)
FieldsPerRecord == 3

ErrFieldCount == "wrong number of fields"
ErrBareQuote == "bare quote in non-quoted-field"

RECURSIVE SkipBlank(_, _)
SkipBlank(ls, p) ==
    IF p < Len(ls) /\ ls[p + 1] = <<>> THEN SkipBlank(ls, p + 1) ELSE p

csvReadLenient(ls, p) ==
    LET q == SkipBlank(ls, p)
    IN  IF q >= Len(ls)
        THEN [eof |-> TRUE, err |-> NoErr, record |-> <<>>, pos |-> q]
        ELSE
        LET raw    == SplitComma(ls[q + 1])
            padded == [i \in 1..FieldsPerRecord |->
                          IF i <= Len(raw) THEN raw[i] ELSE <<"0">>]
        IN  [eof |-> FALSE, err |-> NoErr, record |-> padded, pos |-> q + 1]

\* csvReader.Read() with p lines already consumed
csvRead(ls, p) ==
    LET q == SkipBlank(ls, p)
    IN  IF q >= Len(ls)
        THEN [eof |-> TRUE, err |-> NoErr, record |-> <<>>, pos |-> q]
        ELSE
        LET record == SplitComma(ls[q + 1])
        IN  IF \E i \in 1..Len(record) :
                   \E j \in 1..Len(record[i]) : record[i][j] = "\""
            THEN [eof |-> FALSE, err |-> ErrBareQuote, record |-> <<>>,
                  pos |-> q + 1]
            ELSE IF Len(record) # FieldsPerRecord
            THEN [eof |-> FALSE, err |-> ErrFieldCount, record |-> record,
                  pos |-> q + 1]
            ELSE [eof |-> FALSE, err |-> NoErr, record |-> record,
                  pos |-> q + 1]

(***************************************************************************)
(* Reader.isHeaderRow                                                      *)
(***************************************************************************)
\* isHeaderRow with the integer check of its first field made before the
\* checks of the column names
isHeaderRowIntegerFirst(record) ==
    IF Len(record) # 3 THEN FALSE
    ELSE IF AtoiOk(TrimSpace(record[1])) THEN FALSE
    ELSE
    LET firstCol  == ToLower(TrimSpace(record[1]))
        secondCol == ToLower(TrimSpace(record[2]))
        thirdCol  == ToLower(TrimSpace(record[3]))
    IN  \/ firstCol \in {<<"i", "d">>, <<"t", "r", "a", "n", "s", "a", "c", "t", "i", "o", "n", "_", "i", "d">>}
        \/ secondCol \in {<<"d", "a", "t", "e">>, <<"t", "r", "a", "n", "s", "a", "c", "t", "i", "o", "n", "_", "d", "a", "t", "e">>}
        \/ thirdCol \in {<<"a", "m", "o", "u", "n", "t">>, <<"t", "r", "a", "n", "s", "a", "c", "t", "i", "o", "n">>, <<"v", "a", "l", "u", "e">>}

isHeaderRow(record) ==
    IF Len(record) # 3 THEN FALSE
    ELSE
    LET firstCol  == ToLower(TrimSpace(record[1]))
        secondCol == ToLower(TrimSpace(record[2]))
        thirdCol  == ToLower(TrimSpace(record[3]))
    IN  IF firstCol = <<"i", "d">>
           \/ firstCol = <<"t", "r", "a", "n", "s", "a", "c", "t", "i", "o", "n", "_", "i", "d">>
        THEN TRUE
        ELSE IF secondCol = <<"d", "a", "t", "e">>
           \/ secondCol = <<"t", "r", "a", "n", "s", "a", "c", "t", "i", "o", "n", "_", "d", "a", "t", "e">>
        THEN TRUE
        ELSE IF thirdCol = <<"a", "m", "o", "u", "n", "t">>
           \/ thirdCol = <<"t", "r", "a", "n", "s", "a", "c", "t", "i", "o", "n">>
           \/ thirdCol = <<"v", "a", "l", "u", "e">>
        THEN TRUE
        ELSE IF AtoiOk(TrimSpace(record[1])) THEN FALSE
        ELSE FALSE

(***************************************************************************)
(* Reader.parseTransaction.  The fresh uuid and the CreatedAt/UpdatedAt    *)
(* stamps are not part of the model.                                       *)
(***************************************************************************)
NoTransaction == [nil |-> TRUE]

TxFail(msg) == [err |-> msg, tx |-> NoTransaction]

\* parseTransaction with the amount parsed before the date
parseTransactionAmountFirst(record, accountID, currentYear) ==
    IF Len(record) # 3 THEN TxFail("invalid CSV record format")
    ELSE
    LET idStr == TrimSpace(record[1])
        transactionDate == parseDate(TrimSpace(record[2]), currentYear)
        a == parseAmount(TrimSpace(record[3]))
    IN  IF idStr = <<>> THEN TxFail("transaction ID cannot be empty")
        ELSE IF a.err # NoErr THEN TxFail(a.err)
        ELSE IF ~transactionDate.ok THEN TxFail("invalid date format")
        ELSE [err |-> NoErr,
              tx  |-> [AccountID   |-> accountID,
                       Date        |-> [year  |-> transactionDate.year,
                                        month |-> transactionDate.month,
                                        day   |-> transactionDate.day],
                       Amount      |-> a.amount,
                       Type        |-> a.type,
                       Description |-> <<"Transaction ">> \o idStr]]

parseTransaction(record, accountID, currentYear) ==
    IF Len(record) # 3 THEN TxFail("invalid CSV record format")
    ELSE
    LET idStr == TrimSpace(record[1])
    IN  IF idStr = <<>> THEN TxFail("transaction ID cannot be empty")
        ELSE
        LET dStr == TrimSpace(record[2])
            transactionDate == parseDate(dStr, currentYear)
        IN  IF ~transactionDate.ok THEN TxFail("invalid date format")
            ELSE
            LET aStr == TrimSpace(record[3])
                a    == parseAmount(aStr)
            IN  IF a.err # NoErr THEN TxFail(a.err)
                ELSE [err |-> NoErr,
                      tx  |-> [AccountID   |-> accountID,
                               Date        |-> [year  |-> transactionDate.year,
                                                month |-> transactionDate.month,
                                                day   |-> transactionDate.day],
                               Amount      |-> a.amount,
                               Type        |-> a.type,
                               Description |-> <<"Transaction ">> \o idStr]]

(***************************************************************************)
(* The lines streams are made of:                                          *)
\*   ID,Date,Transaction    the header of the test file
\*   1,7/15,+60.5           a credit
\*   2,7/28,-10.3           a debit
\*   (empty)                a blank line
\*   1,7/15                 two fields
\*   1,7/15,+60.5,x         four fields
\*    ,8/2,5                an empty id
\*   3,x,5                  a date of no layout
\*   4,8/2,abc              an amount that is no number
\*   x,date,5               header-shaped by its second field
\*   1,date,5               header-shaped, with an integer id
\*   id,7/15,5              header-shaped by its first field, and data
\*   5,8/2,1"0              a bare quote in a field
(***************************************************************************)
StreamLines ==
    { <<"I", "D", ",", "D", "a", "t", "e", ",", "T", "r", "a", "n", "s", "a", "c", "t", "i", "o", "n">>,
      <<"1", ",", "7", "/", "1", "5", ",", "+", "6", "0", ".", "5">>,
      <<"2", ",", "7", "/", "2", "8", ",", "-", "1", "0", ".", "3">>,
      <<>>,
      <<"1", ",", "7", "/", "1", "5">>,
      <<"1", ",", "7", "/", "1", "5", ",", "+", "6", "0", ".", "5", ",", "x">>,
      <<" ", ",", "8", "/", "2", ",", "5">>,
      <<"3", ",", "x", ",", "5">>,
      <<"4", ",", "8", "/", "2", ",", "a", "b", "c">>,
      <<"x", ",", "d", "a", "t", "e", ",", "5">>,
      <<"1", ",", "d", "a", "t", "e", ",", "5">>,
      <<"i", "d", ",", "7", "/", "1", "5", ",", "5">>,
      <<"5", ",", "8", "/", "2", ",", "1", "\"", "0">> }

Streams == UNION {[1..n -> StreamLines] : n \in 0..MaxRows}

AccountID == "test-account"
(***************************************************************************)
(* Reader.ReadTransactions as a state machine: Open, then one action per   *)
(* way an iteration of the read loop can go.                               *)
(***************************************************************************)
NoError == [msg |-> NoErr, line |-> 0, cause |-> NoErr]

\* return nil, fmt.Errorf(msg ... line ... cause)
ReadFail(msg, line, cause) ==
    [transactions |-> <<>>, err |-> [msg |-> msg, line |-> line, cause |-> cause]]

AppendFront(txs, tx) == <<tx>> \o txs

\* transactions = append(transactions, transaction)
AppendTx(txs, tx) == Append(txs, tx)

\* the record the next Read yields
NextRead == csvRead(lines, pos)

parserVars == <<amountIn, amountRet, dateIn, dateRet, recordIn, headerRet, txRet>>

calcVars == <<calcArgs, calcRets, formatArg, formatRets>>

storeVars == <<db, storeArg, storeErr, storeCalls>>

procVars == <<repo, filePaths, fileIndex, procPc, procTxs, procBody, procCalls, batchRet>>

\* lines 36-75: the file or S3 object is opened, or the call fails
Open ==
    /\ pc = "open"
    /\ IF source = "ok"
       THEN pc' = "loop" /\ ret' = ret
       ELSE /\ pc' = "done"
            /\ ret' = ReadFail("failed to open CSV file", 0, "open")
    /\ UNCHANGED <<storeVars, procVars, now, source, lines, pos, lineNumber, transactions, parserVars, calcVars>>

ReadEOFNoCheck ==
    /\ pc = "loop"
    /\ NextRead.eof
    /\ pc' = "done"
    /\ ret' = [transactions |-> transactions, err |-> NoError]
    /\ UNCHANGED <<storeVars, procVars, now, source, lines, pos, lineNumber, transactions, parserVars, calcVars>>

\* err == io.EOF: break, then the check for an empty result and the return
ReadEOF ==
    /\ pc = "loop"
    /\ NextRead.eof
    /\ pc' = "done"
    /\ ret' = IF Len(transactions) = 0
              THEN ReadFail("no valid transactions found in CSV file", 0, NoErr)
              ELSE [transactions |-> transactions, err |-> NoError]
    /\ UNCHANGED <<storeVars, procVars, now, source, lines, pos, lineNumber, transactions, parserVars, calcVars>>

ReadErrorSameLine ==
    /\ pc = "loop"
    /\ ~NextRead.eof
    /\ NextRead.err # NoErr
    /\ pc' = "done"
    /\ pos' = NextRead.pos
    /\ ret' = ReadFail("failed to read CSV record", lineNumber, NextRead.err)
    /\ UNCHANGED <<storeVars, procVars, now, source, lines, lineNumber, transactions, parserVars, calcVars>>

\* err != nil from Read
ReadError ==
    /\ pc = "loop"
    /\ ~NextRead.eof
    /\ NextRead.err # NoErr
    /\ pc' = "done"
    /\ pos' = NextRead.pos
    /\ ret' = ReadFail("failed to read CSV record", lineNumber + 1, NextRead.err)
    /\ UNCHANGED <<storeVars, procVars, now, source, lines, lineNumber, transactions, parserVars, calcVars>>

\* SkipHeader with the header check made of every row
SkipHeaderAnyRow ==
    /\ pc = "loop"
    /\ ~NextRead.eof
    /\ NextRead.err = NoErr
    /\ isHeaderRow(NextRead.record)
    /\ lineNumber' = lineNumber + 1
    /\ pos' = NextRead.pos
    /\ UNCHANGED <<storeVars, procVars, now, source, lines, transactions, pc, ret, parserVars, calcVars>>

\* lineNumber == 1 && r.isHeaderRow(record): continue
SkipHeader ==
    /\ pc = "loop"
    /\ ~NextRead.eof
    /\ NextRead.err = NoErr
    /\ lineNumber + 1 = 1
    /\ isHeaderRow(NextRead.record)
    /\ lineNumber' = lineNumber + 1
    /\ pos' = NextRead.pos
    /\ UNCHANGED <<storeVars, procVars, now, source, lines, transactions, pc, ret, parserVars, calcVars>>

ParseFailSkips ==
    /\ pc = "loop"
    /\ ~NextRead.eof
    /\ NextRead.err = NoErr
    /\ ~(lineNumber + 1 = 1 /\ isHeaderRow(NextRead.record))
    /\ parseTransaction(NextRead.record, AccountID, now).err # NoErr
    /\ lineNumber' = lineNumber + 1
    /\ pos' = NextRead.pos
    /\ UNCHANGED <<storeVars, procVars, now, source, lines, transactions, pc, ret, parserVars, calcVars>>

\* parseTransaction fails: the call returns
ParseFail ==
    /\ pc = "loop"
    /\ ~NextRead.eof
    /\ NextRead.err = NoErr
    /\ ~(lineNumber + 1 = 1 /\ isHeaderRow(NextRead.record))
    /\ LET p == parseTransaction(NextRead.record, AccountID, now)
       IN  /\ p.err # NoErr
           /\ ret' = ReadFail("failed to parse transaction", lineNumber + 1, p.err)
    /\ lineNumber' = lineNumber + 1
    /\ pos' = NextRead.pos
    /\ pc' = "done"
    /\ UNCHANGED <<storeVars, procVars, now, source, lines, transactions, parserVars, calcVars>>

\* parseTransaction succeeds: the transaction is appended
ParseOk ==
    /\ pc = "loop"
    /\ ~NextRead.eof
    /\ NextRead.err = NoErr
    /\ ~(lineNumber + 1 = 1 /\ isHeaderRow(NextRead.record))
    /\ LET p == parseTransaction(NextRead.record, AccountID, now)
       IN  /\ p.err = NoErr
           /\ transactions' = AppendTx(transactions, p.tx)
    /\ lineNumber' = lineNumber + 1
    /\ pos' = NextRead.pos
    /\ UNCHANGED <<storeVars, procVars, now, source, lines, pc, ret, parserVars, calcVars>>

\* a parseAmount call
CallParseAmount ==
    /\ amountRet = Pending
    /\ amountIn # <<"idle">>
    /\ amountRet' = parseAmount(amountIn)
    /\ UNCHANGED <<storeVars, procVars, now, amountIn, dateIn, dateRet, recordIn, headerRet, txRet,
                   source, lines, pos, lineNumber, transactions, pc, ret,
                   calcVars>>

\* a parseDate call
CallParseDate ==
    /\ dateRet = Pending
    /\ dateIn # <<"idle">>
    /\ dateRet' = parseDate(dateIn, now)
    /\ UNCHANGED <<storeVars, procVars, now, amountIn, amountRet, dateIn, recordIn, headerRet, txRet,
                   source, lines, pos, lineNumber, transactions, pc, ret,
                   calcVars>>

\* an isHeaderRow call
CallIsHeaderRow ==
    /\ recordIn # <<"idle">>
    /\ headerRet = Pending
    /\ headerRet' = [header |-> isHeaderRow(recordIn)]
    /\ UNCHANGED <<storeVars, procVars, now, amountIn, amountRet, dateIn, dateRet, recordIn, txRet,
                   source, lines, pos, lineNumber, transactions, pc, ret,
                   calcVars>>

\* a parseTransaction call
CallParseTransaction ==
    /\ recordIn # <<"idle">>
    /\ txRet = Pending
    /\ \E accountID \in {AccountID, "other-account"} :
          txRet' = [accountID |-> accountID,
                    ret       |-> parseTransaction(recordIn, accountID, now)]
    /\ UNCHANGED <<storeVars, procVars, now, amountIn, amountRet, dateIn, dateRet, recordIn, headerRet,
                   source, lines, pos, lineNumber, transactions, pc, ret,
                   calcVars>>

(***************************************************************************)
(* Specifications.  Spec: ReadTransactions on every stream.  SpecAmount:   *)
(* parseAmount on every amount string.  SpecDate: parseDate on every date  *)
(* string, in a common and in a leap year.                                 *)
(***************************************************************************)
\* the value of an argument variable when no call is under way
NoArgs == [idle |-> TRUE]

Idle == <<"idle">>

\* no record function is being called
RecordIdle ==
    /\ recordIn = Idle
    /\ headerRet = Pending
    /\ txRet = Pending

\* a database with no rows
EmptyDB == [accounts |-> [id \in {} |-> NoArgs], transactions |-> {}]

\* CreateBatch has not been called
StoreIdle ==
    /\ db = EmptyDB
    /\ storeArg = NoArgs
    /\ storeErr = NoErr
    /\ storeCalls = 0

\* ProcessBatch has not been called
ProcIdle ==
    /\ repo = FALSE
    /\ filePaths = <<>>
    /\ fileIndex = 0
    /\ procPc = "idle"
    /\ procTxs = <<>>
    /\ procBody = <<>>
    /\ procCalls = <<>>
    /\ batchRet = Pending

ReaderIdle ==
    /\ source = "ok"
    /\ lines = <<>>
    /\ pos = 0
    /\ lineNumber = 0
    /\ transactions = <<>>
    /\ pc = "idle"
    /\ ret = Pending

\* no call of the calculator is under way
CalcIdle ==
    /\ calcArgs = NoArgs
    /\ calcRets = <<>>
    /\ formatArg = NoArgs
    /\ formatRets = <<>>

\* no line of StreamLines carries a February 29, so one year, a common
\* one, stands for both
IngestYears == {y \in CurrentYears : ~isLeap(y)}

Init ==
    /\ StoreIdle
    /\ ProcIdle
    /\ now \in IngestYears
    /\ amountIn = Idle /\ amountRet = Pending
    /\ dateIn = Idle /\ dateRet = Pending
    /\ RecordIdle
    /\ source \in {"ok", "openFail"}
    /\ lines \in Streams
    /\ pos = 0
    /\ lineNumber = 0
    /\ transactions = <<>>
    /\ pc = "open"
    /\ ret = Pending
    /\ CalcIdle

Next == Open \/ ReadEOF \/ ReadError \/ SkipHeader \/ ParseFail \/ ParseOk

Spec == Init /\ [][Next]_vars

InitAmount ==
    /\ StoreIdle
    /\ ProcIdle
    /\ now \in CurrentYears
    /\ amountIn \in AmountInputs /\ amountRet = Pending
    /\ dateIn = Idle /\ dateRet = Pending
    /\ RecordIdle
    /\ ReaderIdle
    /\ CalcIdle

NextAmount == CallParseAmount

SpecAmount == InitAmount /\ [][NextAmount]_vars

InitDate ==
    /\ StoreIdle
    /\ ProcIdle
    /\ now \in CurrentYears
    /\ amountIn = Idle /\ amountRet = Pending
    /\ dateIn \in DateInputs /\ dateRet = Pending
    /\ RecordIdle
    /\ ReaderIdle
    /\ CalcIdle

NextDate == CallParseDate

SpecDate == InitDate /\ [][NextDate]_vars

\* the fields records are made of: header names in several spellings, ids
\* that are integers, ids that are not, empty ids, dates and amounts that
\* parse and that do not
FirstFields ==
    { <<"I", "D">>,
      <<" ", "i", "d", " ">>,
      <<"t", "r", "a", "n", "s", "a", "c", "t", "i", "o", "n", "_", "i", "d">>,
      <<"T", "r", "a", "n", "s", "a", "c", "t", "i", "o", "n", "_", "I", "D">>,
      <<"1">>,
      <<" ", "7", " ">>,
      <<"-", "3">>,
      <<"T", "X", "N", "0", "0", "1">>,
      <<>>,
      <<" ">>,
      <<"c", "o", "l", "1">> }

SecondFields ==
    { <<"D", "a", "t", "e">>,
      <<" ", "d", "a", "t", "e">>,
      <<"t", "r", "a", "n", "s", "a", "c", "t", "i", "o", "n", "_", "d", "a", "t", "e">>,
      <<"7", "/", "1", "5">>,
      <<"x">>,
      <<"c", "o", "l", "2">> }

ThirdFields ==
    { <<"A", "m", "o", "u", "n", "t">>,
      <<"t", "r", "a", "n", "s", "a", "c", "t", "i", "o", "n">>,
      <<"V", "a", "l", "u", "e", " ">>,
      <<"+", "6", "0", ".", "5">>,
      <<"-", "1", "0", ".", "3">>,
      <<"a", "b", "c">>,
      <<"c", "o", "l", "3">>,
      <<"1", "0", "0", "0", "0", "0", "0", ".", "0", "1">> }

\* records of three fields, of two, of four and of none
RecordInputs ==
    {<<a, b, c>> : a \in FirstFields, b \in SecondFields, c \in ThirdFields}
       \cup {<<a, b>> : a \in FirstFields, b \in SecondFields}
       \cup {<<a, b, c, c>> : a \in {<<"I", "D">>, <<"1">>},
                              b \in {<<"D", "a", "t", "e">>, <<"7", "/", "1", "5">>},
                              c \in ThirdFields}
       \cup {<<>>}

InitRecord ==
    /\ StoreIdle
    /\ ProcIdle
    /\ now \in CurrentYears
    /\ amountIn = Idle /\ amountRet = Pending
    /\ dateIn = Idle /\ dateRet = Pending
    /\ recordIn \in RecordInputs
    /\ headerRet = Pending
    /\ txRet = Pending
    /\ ReaderIdle
    /\ CalcIdle

NextRecord == CallIsHeaderRow \/ CallParseTransaction

SpecRecord == InitRecord /\ [][NextRecord]_vars
(***************************************************************************)
(* Reading an amount string as a decimal numeral, digit by digit: the      *)
(* reference the claims about parseAmount are stated against.  A numeral   *)
(* is [sign] digits [. digits] [e [sign] digits], with at least one digit  *)
(* before the exponent.                                                    *)
(***************************************************************************)
AllDigits(s) == \A i \in 1..Len(s) : IsDigit(s[i])

\* the input without the white space around it
Trimmed(str) == TrimSpace(str)

\* the numeric remainder: the trimmed input without its leading sign
Remainder(str) ==
    LET t == Trimmed(str)
    IN  IF t # <<>> /\ Head(t) \in {"+", "-"} THEN Tail(t) ELSE t

NumeralParts(r) ==
    LET body  == IF r # <<>> /\ Head(r) \in {"+", "-"} THEN Tail(r) ELSE r
        eIdx  == IndexAny(body, {"e", "E"})
        mant  == IF eIdx = 0 THEN body ELSE SubSeq(body, 1, eIdx - 1)
        expo  == IF eIdx = 0 THEN [ok |-> TRUE, n |-> 0]
                 ELSE ParseInt(SubSeq(body, eIdx + 1, Len(body)))
        pIdx  == IndexAny(mant, {"."})
        ip    == IF pIdx = 0 THEN mant ELSE SubSeq(mant, 1, pIdx - 1)
        fp    == IF pIdx = 0 THEN <<>> ELSE SubSeq(mant, pIdx + 1, Len(mant))
    IN  [ok |-> expo.ok /\ AllDigits(ip) /\ AllDigits(fp) /\ Len(ip) + Len(fp) >= 1,
         int |-> ip, frac |-> fp, exp |-> expo.n]

\* the weight, as a power of ten, of each digit of a numeral
IntWeight(parts, i) == Len(parts.int) - i + parts.exp
FracWeight(parts, j) == parts.exp - j

\* no non-zero digit of the numeral is worth less than a hundredth
WholeCents(parts) ==
    /\ \A i \in 1..Len(parts.int) :
          DigitVal(parts.int[i]) # 0 => IntWeight(parts, i) + 2 >= 0
    /\ \A j \in 1..Len(parts.frac) :
          DigitVal(parts.frac[j]) # 0 => FracWeight(parts, j) + 2 >= 0

DigitCents(d, w) == IF d = 0 \/ w + 2 < 0 THEN 0 ELSE d * Pow10(w + 2)

RECURSIVE IntCents(_, _)
IntCents(parts, i) ==
    IF i > Len(parts.int) THEN 0
    ELSE DigitCents(DigitVal(parts.int[i]), IntWeight(parts, i))
            + IntCents(parts, i + 1)

RECURSIVE FracCents(_, _)
FracCents(parts, j) ==
    IF j > Len(parts.frac) THEN 0
    ELSE DigitCents(DigitVal(parts.frac[j]), FracWeight(parts, j))
            + FracCents(parts, j + 1)

\* the magnitude the numeral writes, in hundredths
WrittenCents(parts) == IntCents(parts, 1) + FracCents(parts, 1)

\* the magnitude the numeral writes exceeds the limit
WrittenOverLimit(parts) ==
    AbsGreaterThanMax(Dec(DigitsValue(parts.int \o parts.frac),
                          parts.exp - Len(parts.frac)))

\* a decimal of exponent >= -2, in hundredths
Cents(d) == IF d.value = 0 THEN 0 ELSE d.value * Pow10(d.exp + 2)

\* the errors of parseAmount by the kind the specification gives them
InvalidAmount == {"amount cannot be empty", "invalid numeric amount"}
AmountOutOfRange == {"amount exceeds maximum limit"}
AmountPrecisionExceeded == {"amount has too many decimal places (max 2)"}

AmountCalled == amountRet # Pending
AmountAccepted == AmountCalled /\ amountRet.err = NoErr

(***************************************************************************)
(* C6: kind always agrees with sign: for every accepted amount string,     *)
(* kind = Credit iff amount >= 0 and kind = Debit iff amount < 0.          *)
(* Stated as claimed; parseAmount("-0") returns (0, Debit).                *)
(***************************************************************************)
C6_KindAgreesWithSign ==
    AmountAccepted =>
        /\ (amountRet.type = Credit) <=> (DecSign(amountRet.amount) >= 0)
        /\ (amountRet.type = Debit) <=> (DecSign(amountRet.amount) < 0)

(***************************************************************************)
(* C7: parseAmount classifies by the leading character of the trimmed      *)
(* input only ("+" Credit, "-" Debit, none Credit), and the amount is the  *)
(* absolute value of the numeric remainder, negated for Debit, whatever    *)
(* sign the remainder itself carries; "+60.5" -> (60.5, Credit),           *)
(* "-10.3" -> (-10.3, Debit), "100" -> (100, Credit).                      *)
(***************************************************************************)
C7_ClassifiedByLeadingSign ==
    AmountAccepted =>
        LET t     == Trimmed(amountIn)
            kind  == IF Head(t) = "-" THEN Debit ELSE Credit
            m     == NewFromString(Remainder(amountIn))
        IN  /\ amountRet.type = kind
            /\ m.ok
            /\ amountRet.amount.exp = m.d.exp
            /\ amountRet.amount.value =
                  IF kind = Debit THEN -AbsInt(m.d.value) ELSE AbsInt(m.d.value)
            /\ amountIn = <<"+", "6", "0", ".", "5">> =>
                  amountRet = [err |-> NoErr, amount |-> Dec(605, -1), type |-> Credit]
            /\ amountIn = <<"-", "1", "0", ".", "3">> =>
                  amountRet = [err |-> NoErr, amount |-> Dec(-103, -1), type |-> Debit]
            /\ amountIn = <<"1", "0", "0">> =>
                  amountRet = [err |-> NoErr, amount |-> Dec(100, 0), type |-> Credit]

\* an accepted credit whose remainder carries a minus sign, and an
\* accepted debit whose remainder carries a plus sign
C7_Witness ==
    /\ AmountAccepted
    /\ amountIn \in { <<"+", "-", "6", "0", ".", "5">>, <<"-", "+", "1", "0", ".", "3">> }
    /\ amountRet.amount.value # 0

(***************************************************************************)
(* C8: every accepted amount has magnitude <= 1,000,000 and at most 2      *)
(* digits after the decimal point, and equals, up to the sign the kind     *)
(* gives it, the value the input writes: nothing is rounded or truncated.  *)
(* The value written is that of the numeric remainder read as a numeral.   *)
(* Stated as claimed; parseAmount(".-5"), which writes no numeral, is      *)
(* accepted as 0.05.                                                       *)
(***************************************************************************)
C8_AmountWithinLimitsAndExact ==
    AmountAccepted =>
        LET a     == amountRet.amount
            parts == NumeralParts(Remainder(amountIn))
        IN  /\ a.exp >= -2
            /\ AbsInt(Cents(a)) <= MaxAmount * 100
            /\ parts.ok
            /\ WholeCents(parts)
            /\ AbsInt(Cents(a)) = WrittenCents(parts)

\* what holds of C8: the limits for every accepted amount, and the value
\* written for every accepted input that is a numeral
AcceptedNumeralsExact ==
    AmountAccepted =>
        LET a     == amountRet.amount
            parts == NumeralParts(Remainder(amountIn))
        IN  /\ a.exp >= -2
            /\ AbsInt(Cents(a)) <= MaxAmount * 100
            /\ parts.ok =>
                  /\ WholeCents(parts)
                  /\ AbsInt(Cents(a)) = WrittenCents(parts)

(***************************************************************************)
(* C9: parseAmount rejects an empty or non-numeric string with             *)
(* InvalidAmount, a numeral of magnitude > 1,000,000 with AmountOutOfRange *)
(* (exactly 1,000,000 is accepted), a numeral within range written with    *)
(* more than 2 digits after the point with AmountPrecisionExceeded; the    *)
(* magnitude check comes first.  Stated as claimed; parseAmount(".-5")     *)
(* is accepted as 0.05 and parseAmount("1.234e1") as 12.34.                *)
(***************************************************************************)
C9_RejectionKinds ==
    AmountCalled =>
        LET t     == Trimmed(amountIn)
            parts == NumeralParts(Remainder(amountIn))
        IN  /\ (t = <<>> \/ ~parts.ok) => amountRet.err \in InvalidAmount
            /\ (t # <<>> /\ parts.ok /\ WrittenOverLimit(parts)) =>
                  amountRet.err \in AmountOutOfRange
            /\ (t # <<>> /\ parts.ok /\ ~WrittenOverLimit(parts)
                  /\ Len(parts.frac) > 2) =>
                  amountRet.err \in AmountPrecisionExceeded
            /\ amountIn = <<"1", "0", "0", "0", "0", "0", "0">> => amountRet.err = NoErr
            /\ amountRet.err # NoErr => amountRet.amount = DecZero
(***************************************************************************)
(* Reading a date string by its separators: the reference the claim about  *)
(* parseDate is stated against.  Two parts are month and day; three parts  *)
(* are year, month, day when the first has four characters, and month,     *)
(* day, year otherwise.                                                    *)
(***************************************************************************)
RECURSIVE SplitDate(_)
SplitDate(s) ==
    LET i == IndexAny(s, {"/", "-"})
    IN  IF i = 0 THEN <<s>>
        ELSE <<SubSeq(s, 1, i - 1)>> \o SplitDate(SubSeq(s, i + 1, Len(s)))

WrittenDate(s) ==
    LET p == SplitDate(s)
    IN  IF Len(p) = 2
        THEN [hasYear |-> FALSE, year |-> 0,
              month |-> DigitsValue(p[1]), day |-> DigitsValue(p[2])]
        ELSE IF Len(p[1]) = 4
        THEN [hasYear |-> TRUE, year |-> DigitsValue(p[1]),
              month |-> DigitsValue(p[2]), day |-> DigitsValue(p[3])]
        ELSE [hasYear |-> TRUE, year |-> DigitsValue(p[3]),
              month |-> DigitsValue(p[1]), day |-> DigitsValue(p[2])]

DateCalled == dateRet # Pending
DateAccepted == DateCalled /\ dateRet.ok

(***************************************************************************)
(* C10: parseDate returns the calendar date written in the input: month    *)
(* and day are the input's, the year is the input's when the layout        *)
(* carries one (any 4-digit year) and the current year when it carries     *)
(* none (for every month/day the year-less layouts accept, 2/29 included). *)
(* Stated as claimed; in a common year parseDate("2/29") is March 1, and   *)
(* parseDate("01/02/0000") is given the current year.                      *)
(***************************************************************************)
C10_DateAsWritten ==
    DateAccepted =>
        LET w == WrittenDate(dateIn)
        IN  /\ dateRet.month = w.month
            /\ dateRet.day = w.day
            /\ dateRet.year = IF w.hasYear THEN w.year ELSE now
(***************************************************************************)
(* The stream as its rows: the records the csv reader yields, in order     *)
(* (blank lines are not rows).  Row k is the k-th of them, counted from 1. *)
(***************************************************************************)
NotBlank(l) == l # <<>>

Rows == SelectSeq(lines, NotBlank)

RowFields(k) == SplitComma(Rows[k])

\* reading row k fails in the csv reader
RowUnreadable(k) == csvRead(<<Rows[k]>>, 0).err # NoErr

\* the first row is a header that ReadTransactions skips
HeaderSkipped ==
    Len(Rows) >= 1 /\ ~RowUnreadable(1) /\ isHeaderRow(RowFields(1))

RowIsData(k) == ~(k = 1 /\ HeaderSkipped)

\* row k is a data row that cannot be read or parsed
RowBad(k) ==
    /\ RowIsData(k)
    /\ \/ RowUnreadable(k)
       \/ parseTransaction(RowFields(k), AccountID, now).err # NoErr

BadRows == {k \in 1..Len(Rows) : RowBad(k)}

FirstBad == CHOOSE k \in BadRows : \A j \in BadRows : k <= j

\* the number of data rows, and the row of the i-th data row
DataCount == IF HeaderSkipped THEN Len(Rows) - 1 ELSE Len(Rows)
DataRow(i) == IF HeaderSkipped THEN i + 1 ELSE i

\* the errors of ReadTransactions by the kind the specification gives them
RecordParseFailed == {"failed to read CSV record", "failed to parse transaction"}
MalformedRecord == {ErrFieldCount, "invalid CSV record format"}
EmptyDataset == {"no valid transactions found in CSV file"}

\* ReadTransactions has returned, the stream having been opened
Returned == pc = "done" /\ source = "ok"
Succeeded == Returned /\ ret.err = NoError

(***************************************************************************)
(* C1: ReadTransactions is fail-fast with no partial result: if any row    *)
(* other than a skipped first-row header cannot be read or parsed, the     *)
(* call returns an error and no transactions, however many earlier rows    *)
(* parsed; the bad row is never skipped and no row after it is read.       *)
(***************************************************************************)
C1_FailFastNoPartialResult ==
    (source = "ok" /\ BadRows # {}) =>
        /\ lineNumber <= FirstBad
        /\ Len(transactions) < FirstBad
        /\ pc = "done" =>
              /\ ret.err.msg \in RecordParseFailed
              /\ ret.transactions = <<>>

\* the call failed on a row after two rows had been parsed and appended
C1_Witness ==
    /\ Returned
    /\ BadRows # {}
    /\ Len(transactions) = 2
    /\ ret.err.msg \in RecordParseFailed
    /\ ret.transactions = <<>>

C3_OneTransactionPerRowInOrder ==
    Succeeded =>
        /\ Len(ret.transactions) = DataCount
        /\ \A i \in 1..DataCount :
              LET f == RowFields(DataRow(i))
                  d == parseDate(TrimSpace(f[2]), now)
                  a == parseAmount(TrimSpace(f[3]))
                  t == ret.transactions[i]
              IN  /\ t.Date = [year |-> d.year, month |-> d.month, day |-> d.day]
                  /\ t.Amount = a.amount
                  /\ t.Type = a.type

\* a success with a skipped header and two different transactions
C3_Witness ==
    /\ Succeeded
    /\ HeaderSkipped
    /\ Len(ret.transactions) = 2
    /\ ret.transactions[1].Type = Credit
    /\ ret.transactions[2].Type = Debit

(***************************************************************************)
(* C4: a stream with zero data rows (empty, or only a header) makes        *)
(* ReadTransactions fail with EmptyDataset; a successful call returns at   *)
(* least one transaction.                                                  *)
(***************************************************************************)
C4_EmptyDataset ==
    Returned =>
        /\ DataCount = 0 =>
              /\ ret.err.msg \in EmptyDataset
              /\ ret.transactions = <<>>
        /\ ret.err = NoError => Len(ret.transactions) >= 1

\* a stream whose only row is a header, failed with EmptyDataset
C4_Witness ==
    /\ Returned
    /\ Len(Rows) = 1
    /\ HeaderSkipped
    /\ ret.err.msg \in EmptyDataset

MaxTxs == 3           \* transaction lists of every length up to this are tried
MaxCalls == 2         \* a function is called up to this many times on one input
MaxFormatTxs == 2     \* lists of up to this length feed FormatSummaryForEmail

MinInt(a, b) == IF a < b THEN a ELSE b

\* d.rescale(exp) for an exponent not above d.exp: the same number with a
\* longer coefficient
RescaleDown(d, e) == Dec(d.value * Pow10(d.exp - e), e)

\* Decimal.Add: both operands are rescaled to the smaller exponent and the
\* coefficients added
DecAdd(d, d2) ==
    LET e == MinInt(d.exp, d2.exp)
    IN  Dec(RescaleDown(d, e).value + RescaleDown(d2, e).value, e)

\* the zero value of Decimal (var averageCredit decimal.Decimal)
DecUninit == Dec(0, 0)

\* decimal.DivisionPrecision
DivisionPrecision == 16

\* the next k decimal digits of rem / divisor and the remainder left
RECURSIVE FracDigits(_, _, _)
FracDigits(rem, divisor, k) ==
    IF k = 0 THEN [digits |-> <<>>, rem |-> rem]
    ELSE LET rest == FracDigits((rem * 10) % divisor, divisor, k - 1)
         IN  [digits |-> <<(rem * 10) \div divisor>> \o rest.digits,
              rem    |-> rest.rem]

\* one unit added in the last place of whole.frac
RECURSIVE AddUlp(_, _)
AddUlp(whole, frac) ==
    IF frac = <<>> THEN [whole |-> whole + 1, frac |-> <<>>]
    ELSE LET n == Len(frac)
         IN  IF frac[n] < 9
             THEN [whole |-> whole, frac |-> [frac EXCEPT ![n] = frac[n] + 1]]
             ELSE LET up == AddUlp(whole, SubSeq(frac, 1, n - 1))
                  IN  [whole |-> up.whole, frac |-> Append(up.frac, 0)]

\* a quotient: its coefficient has more digits than the integers of the
\* model checker hold, so it is kept as sign, integer part and the
\* DivisionPrecision digits after the point (exponent -DivisionPrecision)
Quo(neg, whole, frac) == [neg |-> neg, whole |-> whole, frac |-> frac]

IsQuo(d) == "frac" \in DOMAIN d

DivTruncated(d, n) ==
    LET a       == AbsInt(d.value)
        num     == IF d.exp >= 0 THEN a * Pow10(d.exp) ELSE a
        divisor == IF d.exp >= 0 THEN n ELSE n * Pow10(-d.exp)
        fd      == FracDigits(num % divisor, divisor, DivisionPrecision)
        whole   == num \div divisor
    IN  Quo(d.value < 0 /\ (whole # 0 \/ \E i \in 1..Len(fd.digits) : fd.digits[i] # 0),
            whole, fd.digits)

\* d.Div(decimal.NewFromInt(n)) = d.DivRound(n, DivisionPrecision): the
\* quotient truncated at DivisionPrecision places, then moved one unit of
\* the last place away from zero when twice the remainder reaches the
\* divisor
DecDiv(d, n) ==
    LET a       == AbsInt(d.value)
        num     == IF d.exp >= 0 THEN a * Pow10(d.exp) ELSE a
        divisor == IF d.exp >= 0 THEN n ELSE n * Pow10(-d.exp)
        fd      == FracDigits(num % divisor, divisor, DivisionPrecision)
        whole   == num \div divisor
        up      == AddUlp(whole, fd.digits)
    IN  IF 2 * fd.rem >= divisor
        THEN Quo(d.value < 0, up.whole, up.frac)
        ELSE Quo(d.value < 0 /\ (whole # 0 \/ \E i \in 1..Len(fd.digits) : fd.digits[i] # 0),
                 whole, fd.digits)

(***************************************************************************)
(* Month names: time.Month.String() and Time.Format("January").            *)
(***************************************************************************)
MonthNames ==
    << <<"J", "a", "n", "u", "a", "r", "y">>,
       <<"F", "e", "b", "r", "u", "a", "r", "y">>,
       <<"M", "a", "r", "c", "h">>,
       <<"A", "p", "r", "i", "l">>,
       <<"M", "a", "y">>,
       <<"J", "u", "n", "e">>,
       <<"J", "u", "l", "y">>,
       <<"A", "u", "g", "u", "s", "t">>,
       <<"S", "e", "p", "t", "e", "m", "b", "e", "r">>,
       <<"O", "c", "t", "o", "b", "e", "r">>,
       <<"N", "o", "v", "e", "m", "b", "e", "r">>,
       <<"D", "e", "c", "e", "m", "b", "e", "r">> >>

MonthName(month) == MonthNames[month]

\* Calculator.parseMonth: the month of a name, January for any other string
parseMonth(monthName) ==
    IF \E m \in 1..12 : MonthNames[m] = monthName
    THEN CHOOSE m \in 1..12 : MonthNames[m] = monthName
    ELSE 1
(***************************************************************************)
(* domain.Transaction as the calculator reads it, and the transactions the *)
(* lists handed to CalculateSummary are made of.                           *)
(***************************************************************************)
IsCredit(tx) == tx.Type = Credit

IsDebit(tx) == tx.Type = Debit

Tx(year, month, day, amount, type) ==
    [AccountID   |-> AccountID,
     Date        |-> [year |-> year, month |-> month, day |-> day],
     Amount      |-> amount,
     Type        |-> type,
     Description |-> <<>>]

\* the four transactions of the test, then: three decimal places in the
\* same month of another year; the zero debit parseAmount makes of "-0";
\* a Type that is neither Credit nor Debit (the zero value of the string
\* type); a coefficient with a positive exponent, as "1e2" parses to
TxPool ==
    { Tx(2023, 7, 15, Dec(605, -1), Credit),
      Tx(2023, 7, 28, Dec(-103, -1), Debit),
      Tx(2023, 8, 2, Dec(-2046, -2), Debit),
      Tx(2023, 8, 13, Dec(10, 0), Credit),
      Tx(2024, 7, 1, Dec(5, -3), Credit),
      Tx(2023, 7, 28, Dec(0, 0), Debit),
      Tx(2023, 1, 1, Dec(5, 0), ""),
      Tx(2024, 8, 13, Dec(1, 2), Credit) }

\* "mixed transactions from PDF example"
PdfExample ==
    << Tx(2023, 7, 15, Dec(605, -1), Credit),
       Tx(2023, 7, 28, Dec(-103, -1), Debit),
       Tx(2023, 8, 2, Dec(-2046, -2), Debit),
       Tx(2023, 8, 13, Dec(10, 0), Credit) >>

TxLists == StringsUpTo(TxPool, MaxTxs) \cup {PdfExample}

AccountIDs == {AccountID, "other-account"}

\* the instants time.Now() is tried with
Times == {[year |-> 2023, yday |-> 365], [year |-> 2024, yday |-> 1]}

(***************************************************************************)
(* Calculator.CalculateSummary and what it calls.                          *)
(***************************************************************************)
RECURSIVE SumAmountsButFirst(_, _)
SumAmountsButFirst(txs, n) ==
    IF n <= 1 THEN DecZero
    ELSE DecAdd(SumAmountsButFirst(txs, n - 1), txs[n].Amount)

\* totalBalance after the first n transactions (lines 30-33)
RECURSIVE SumAmounts(_, _)
SumAmounts(txs, n) ==
    IF n = 0 THEN DecZero
    ELSE DecAdd(SumAmounts(txs, n - 1), txs[n].Amount)

groupTransactionsByMonthAndYear(txs) ==
    LET key(tx) == <<MonthName(tx.Date.month), tx.Date.year>>
        keys    == {key(txs[i]) : i \in 1..Len(txs)}
    IN  [monthKey \in keys |->
            SelectSeq(txs, LAMBDA tx : key(tx) = monthKey)]

\* monthKey := tx.Date.Format("January"); each transaction is appended to
\* the list of its key, so a list keeps the order of the input
groupTransactionsByMonth(txs) ==
    LET key(tx) == MonthName(tx.Date.month)
        keys    == {key(txs[i]) : i \in 1..Len(txs)}
    IN  [monthKey \in keys |->
            SelectSeq(txs, LAMBDA tx : key(tx) = monthKey)]

NoTotals ==
    [totalCredits |-> DecZero, totalDebits |-> DecZero,
     creditCount  |-> 0, debitCount |-> 0]

RECURSIVE SumByKindAbsDebits(_, _)
SumByKindAbsDebits(txs, n) ==
    IF n = 0 THEN NoTotals
    ELSE LET acc == SumByKindAbsDebits(txs, n - 1)
             tx  == txs[n]
         IN  IF IsCredit(tx)
             THEN [acc EXCEPT !.totalCredits = DecAdd(@, tx.Amount),
                              !.creditCount = @ + 1]
             ELSE IF IsDebit(tx)
             THEN [acc EXCEPT !.totalDebits = DecAdd(@, DecAbs(tx.Amount)),
                              !.debitCount = @ + 1]
             ELSE acc

RECURSIVE SumByKindElse(_, _)
SumByKindElse(txs, n) ==
    IF n = 0 THEN NoTotals
    ELSE LET acc == SumByKindElse(txs, n - 1)
             tx  == txs[n]
         IN  IF IsCredit(tx)
             THEN [acc EXCEPT !.totalCredits = DecAdd(@, tx.Amount),
                              !.creditCount = @ + 1]
             ELSE [acc EXCEPT !.totalDebits = DecAdd(@, tx.Amount),
                              !.debitCount = @ + 1]

\* the loop of lines 88-96 after the first n transactions
RECURSIVE SumByKind(_, _)
\* SumByKind with each total assigned the amount, not increased by it
RECURSIVE SumByKindAssigns(_, _)
SumByKindAssigns(txs, n) ==
    IF n = 0 THEN NoTotals
    ELSE LET acc == SumByKindAssigns(txs, n - 1)
             tx  == txs[n]
         IN  IF IsCredit(tx)
             THEN [acc EXCEPT !.totalCredits = tx.Amount,
                              !.creditCount  = acc.creditCount + 1]
             ELSE IF IsDebit(tx)
             THEN [acc EXCEPT !.totalDebits = tx.Amount,
                              !.debitCount  = acc.debitCount + 1]
             ELSE acc

SumByKind(txs, n) ==
    IF n = 0 THEN NoTotals
    ELSE LET acc == SumByKind(txs, n - 1)
             tx  == txs[n]
         IN  IF IsCredit(tx)
             THEN [acc EXCEPT !.totalCredits = DecAdd(@, tx.Amount),
                              !.creditCount = @ + 1]
             ELSE IF IsDebit(tx)
             THEN [acc EXCEPT !.totalDebits = DecAdd(@, tx.Amount),
                              !.debitCount = @ + 1]
             ELSE acc

calculateMonthlySummaryYearNow(monthKey, txs, t) ==
    LET acc == SumByKind(txs, Len(txs))
    IN  [Month            |-> parseMonth(monthKey),
         Year             |-> t.year,
         TransactionCount |-> Len(txs),
         AverageCredit    |-> IF acc.creditCount > 0
                              THEN DecDiv(acc.totalCredits, acc.creditCount)
                              ELSE DecUninit,
         AverageDebit     |-> IF acc.debitCount > 0
                              THEN DecDiv(acc.totalDebits, acc.debitCount)
                              ELSE DecUninit,
         TotalCredits     |-> acc.totalCredits,
         TotalDebits      |-> acc.totalDebits,
         CreditCount      |-> acc.creditCount,
         DebitCount       |-> acc.debitCount]

\* calculateMonthlySummary with month and year taken from the last
\* transaction of the group
calculateMonthlySummaryLastSample(monthKey, txs, t) ==
    IF Len(txs) = 0
    THEN [Month            |-> parseMonth(monthKey),
          Year             |-> t.year,
          TransactionCount |-> 0,
          AverageCredit    |-> DecZero,
          AverageDebit     |-> DecZero,
          TotalCredits     |-> DecZero,
          TotalDebits      |-> DecZero,
          CreditCount      |-> 0,
          DebitCount       |-> 0]
    ELSE
    LET acc        == SumByKind(txs, Len(txs))
        sampleDate == txs[Len(txs)].Date
    IN  [Month            |-> sampleDate.month,
         Year             |-> sampleDate.year,
         TransactionCount |-> Len(txs),
         AverageCredit    |-> IF acc.creditCount > 0
                              THEN DecDiv(acc.totalCredits, acc.creditCount)
                              ELSE DecUninit,
         AverageDebit     |-> IF acc.debitCount > 0
                              THEN DecDiv(acc.totalDebits, acc.debitCount)
                              ELSE DecUninit,
         TotalCredits     |-> acc.totalCredits,
         TotalDebits      |-> acc.totalDebits,
         CreditCount      |-> acc.creditCount,
         DebitCount       |-> acc.debitCount]

\* t is what time.Now() returns during the call
calculateMonthlySummary(monthKey, txs, t) ==
    IF Len(txs) = 0
    THEN [Month            |-> parseMonth(monthKey),
          Year             |-> t.year,
          TransactionCount |-> 0,
          AverageCredit    |-> DecZero,
          AverageDebit     |-> DecZero,
          TotalCredits     |-> DecZero,
          TotalDebits      |-> DecZero,
          CreditCount      |-> 0,
          DebitCount       |-> 0]
    ELSE
    LET acc        == SumByKind(txs, Len(txs))
        sampleDate == txs[1].Date
    IN  [Month            |-> sampleDate.month,
         Year             |-> sampleDate.year,
         TransactionCount |-> Len(txs),
         AverageCredit    |-> IF acc.creditCount > 0
                              THEN DecDiv(acc.totalCredits, acc.creditCount)
                              ELSE DecUninit,
         AverageDebit     |-> IF acc.debitCount > 0
                              THEN DecDiv(acc.totalDebits, acc.debitCount)
                              ELSE DecUninit,
         TotalCredits     |-> acc.totalCredits,
         TotalDebits      |-> acc.totalDebits,
         CreditCount      |-> acc.creditCount,
         DebitCount       |-> acc.debitCount]

\* make(map[string]domain.MonthlySummary)
EmptyMap == [monthKey \in {} |-> DecZero]

CalculateSummaryEmptyFails(accountID, txs, t) ==
    IF Len(txs) = 0
    THEN [summary |-> [AccountID         |-> accountID,
                       TotalBalance      |-> DecZero,
                       MonthlySummaries  |-> EmptyMap,
                       ProcessedAt       |-> t,
                       TotalTransactions |-> 0],
          err     |-> "no transactions"]
    ELSE [summary |-> [AccountID         |-> accountID,
                       TotalBalance      |-> SumAmounts(txs, Len(txs)),
                       MonthlySummaries  |->
                           LET monthlyData == groupTransactionsByMonth(txs)
                           IN  [monthKey \in DOMAIN monthlyData |->
                                   calculateMonthlySummary(
                                       monthKey, monthlyData[monthKey], t)],
                       ProcessedAt       |-> t,
                       TotalTransactions |-> Len(txs)],
          err     |-> NoErr]

\* the result is the pair (summary, error); the order in which the range
\* of line 38 visits monthlyData does not reach the map it fills
CalculateSummary(accountID, txs, t) ==
    IF Len(txs) = 0
    THEN [summary |-> [AccountID         |-> accountID,
                       TotalBalance      |-> DecZero,
                       MonthlySummaries  |-> EmptyMap,
                       ProcessedAt       |-> t,
                       TotalTransactions |-> 0],
          err     |-> NoErr]
    ELSE
    LET totalBalance == SumAmounts(txs, Len(txs))
        monthlyData  == groupTransactionsByMonth(txs)
    IN  [summary |-> [AccountID         |-> accountID,
                      TotalBalance      |-> totalBalance,
                      MonthlySummaries  |->
                          [monthKey \in DOMAIN monthlyData |->
                              calculateMonthlySummary(monthKey,
                                                      monthlyData[monthKey], t)],
                      ProcessedAt       |-> t,
                      TotalTransactions |-> Len(txs)],
         err     |-> NoErr]

\* a call of CalculateSummary; the caller's list is not written to
CallCalculateSummary ==
    /\ calcArgs # NoArgs
    /\ Len(calcRets) < MaxCalls
    /\ \E t \in Times :
          calcRets' = Append(calcRets,
                             CalculateSummary(calcArgs.accountID,
                                              calcArgs.transactions, t))
    /\ UNCHANGED <<storeVars, procVars, now, parserVars, source, lines, pos, lineNumber,
                   transactions, pc, ret, calcArgs, formatArg, formatRets>>

InitCalc ==
    /\ StoreIdle
    /\ ProcIdle
    /\ now \in IngestYears
    /\ amountIn = Idle /\ amountRet = Pending
    /\ dateIn = Idle /\ dateRet = Pending
    /\ RecordIdle
    /\ ReaderIdle
    /\ calcArgs \in [accountID : AccountIDs, transactions : TxLists]
    /\ calcRets = <<>>
    /\ formatArg = NoArgs
    /\ formatRets = <<>>

NextCalc == CallCalculateSummary

SpecCalc == InitCalc /\ [][NextCalc]_vars
(***************************************************************************)
(* What the claims about the calculator are stated against: amounts as     *)
(* whole numbers of the finest unit any amount of TxPool is written in,    *)
(* and sums and counts taken over index sets.                              *)
(***************************************************************************)
\* the smallest exponent among the amounts and decimal.Zero
FinestExp ==
    LET exps == {tx.Amount.exp : tx \in TxPool} \cup {DecZero.exp}
    IN  CHOOSE e \in exps : \A f \in exps : e <= f

\* d as a whole number of units of 10^FinestExp
Units(d) == d.value * Pow10(d.exp - FinestExp)

\* the sum of f over the set S
RECURSIVE SumOver(_, _)
SumOver(f, S) ==
    IF S = {} THEN 0
    ELSE LET x == CHOOSE y \in S : TRUE
         IN  f[x] + SumOver(f, S \ {x})

CalcCalled == Len(calcRets) >= 1

CalcTxs == calcArgs.transactions

\* the positions of the input whose transaction satisfies Test
Positions(Test(_)) == {i \in 1..Len(CalcTxs) : Test(CalcTxs[i])}

\* the sum, in units, of the amounts at the positions of S
AmountSum(S) == SumOver([i \in 1..Len(CalcTxs) |-> Units(CalcTxs[i].Amount)], S)

(***************************************************************************)
(* C11: CalculateSummary never fails: it returns a nil error for every     *)
(* transaction list, and for an empty list an AccountSummary with the      *)
(* caller's accountId, totalBalance 0, totalTransactions 0 and an empty    *)
(* monthly map.                                                            *)
(***************************************************************************)
C11_NeverFails ==
    \A i \in 1..Len(calcRets) :
        /\ calcRets[i].err = NoErr
        /\ CalcTxs = <<>> =>
              /\ calcRets[i].summary.AccountID = calcArgs.accountID
              /\ calcRets[i].summary.TotalBalance.value = 0
              /\ calcRets[i].summary.TotalTransactions = 0
              /\ DOMAIN calcRets[i].summary.MonthlySummaries = {}

\* the empty list summarised for the second account
C11_Witness ==
    /\ CalcCalled
    /\ CalcTxs = <<>>
    /\ calcArgs.accountID = "other-account"
    /\ calcRets[1].summary.AccountID = "other-account"

(***************************************************************************)
(* C12: totalBalance is the exact sum of all transaction amounts and       *)
(* totalTransactions the length of the list; the amounts 60.5, -10.3,      *)
(* -20.46, 10 give 39.74 and 4.                                            *)
(***************************************************************************)
C12_BalanceIsExactSum ==
    \A i \in 1..Len(calcRets) :
        /\ Units(calcRets[i].summary.TotalBalance)
              = AmountSum(1..Len(CalcTxs))
        /\ calcRets[i].summary.TotalTransactions = Len(CalcTxs)
        /\ CalcTxs = PdfExample =>
              /\ Units(calcRets[i].summary.TotalBalance)
                    = Units(Dec(3974, -2))
              /\ calcRets[i].summary.TotalTransactions = 4

\* the four amounts of the example were summed to 39.74
C12_Witness ==
    /\ CalcCalled
    /\ CalcTxs = PdfExample
    /\ calcRets[1].summary.TotalBalance = Dec(3974, -2)
\* every transaction of the input has kind Credit or Debit
KindsKnown == \A i \in 1..Len(CalcTxs) : CalcTxs[i].Type \in {Credit, Debit}

\* the month names of the input
InputMonths == {MonthName(CalcTxs[i].Date.month) : i \in 1..Len(CalcTxs)}

(***************************************************************************)
(* C13: for every list whose transactions each have kind Credit or Debit,  *)
(* totalBalance is the sum over all monthly summaries of totalCredits plus *)
(* the sum over all monthly summaries of totalDebits.                      *)
(***************************************************************************)
C13_BalanceIsCreditsPlusDebits ==
    \A i \in 1..Len(calcRets) :
        KindsKnown =>
            LET months == calcRets[i].summary.MonthlySummaries
            IN  Units(calcRets[i].summary.TotalBalance)
                  = SumOver([k \in DOMAIN months |-> Units(months[k].TotalCredits)],
                            DOMAIN months)
                    + SumOver([k \in DOMAIN months |-> Units(months[k].TotalDebits)],
                              DOMAIN months)

\* credits and debits in two months, no total of them zero
C13_Witness ==
    /\ CalcCalled
    /\ KindsKnown
    /\ Cardinality(DOMAIN calcRets[1].summary.MonthlySummaries) = 2
    /\ \A k \in DOMAIN calcRets[1].summary.MonthlySummaries :
          /\ calcRets[1].summary.MonthlySummaries[k].TotalCredits.value > 0
          /\ calcRets[1].summary.MonthlySummaries[k].TotalDebits.value < 0
\* the positions of the input whose transaction has month name k
Group(k) == {i \in 1..Len(CalcTxs) : MonthName(CalcTxs[i].Date.month) = k}

\* those of them whose transaction has the kind
GroupOfKind(k, kind) == {i \in Group(k) : CalcTxs[i].Type = kind}

C15_GroupedByMonthName ==
    \A i \in 1..Len(calcRets) :
        LET months == calcRets[i].summary.MonthlySummaries
        IN  /\ DOMAIN months = InputMonths
            /\ \A k \in DOMAIN months :
                  months[k].TransactionCount
                     = Cardinality({j \in 1..Len(CalcTxs) :
                                       MonthNames[CalcTxs[j].Date.month] = k})
            /\ SumOver([k \in DOMAIN months |-> months[k].TransactionCount],
                       DOMAIN months) = Len(CalcTxs)

\* a July of 2023 and a July of 2024 in one group of two
C15_Witness ==
    /\ CalcCalled
    /\ \E i, j \in 1..Len(CalcTxs) :
          /\ CalcTxs[i].Date.month = 7 /\ CalcTxs[j].Date.month = 7
          /\ CalcTxs[i].Date.year = 2023 /\ CalcTxs[j].Date.year = 2024
    /\ MonthNames[7] \in DOMAIN calcRets[1].summary.MonthlySummaries
    /\ calcRets[1].summary.MonthlySummaries[MonthNames[7]].TransactionCount = 2
(***************************************************************************)
(* Quotients against the division they come from, digit by digit: with Q   *)
(* the coefficient of the quotient and M the dividend, both in units of    *)
(* 10^-DivisionPrecision, n * Q - M is evaluated from the leading digit    *)
(* on.  Once the running difference is beyond n + 1 in size it can only    *)
(* grow, so it is held at Far(n) and never leaves the integers.            *)
(***************************************************************************)
RECURSIVE NatDigits(_)
NatDigits(n) ==
    IF n < 10 THEN <<n>> ELSE Append(NatDigits(n \div 10), n % 10)

Zeros(k) == [i \in 1..k |-> 0]

\* s with leading zeros up to length k
PadLeft(s, k) == Zeros(k - Len(s)) \o s

Far(n) == n + 2

Held(d, n) == IF d > Far(n) THEN Far(n) ELSE IF d < -Far(n) THEN -Far(n) ELSE d

RECURSIVE RunningDifference(_, _, _, _)
RunningDifference(qd, md, n, k) ==
    IF k = 0 THEN 0
    ELSE Held(10 * RunningDifference(qd, md, n, k - 1) + n * qd[k] - md[k], n)

\* q is the decimal of DivisionPrecision places nearest to total / n, the
\* one farther from zero when two are equally near
IsQuotient(q, total, n) ==
    LET qd0 == NatDigits(q.whole) \o q.frac
        md0 == IF total.exp >= 0
               THEN NatDigits(AbsInt(total.value) * Pow10(total.exp))
                       \o Zeros(DivisionPrecision)
               ELSE NatDigits(AbsInt(total.value))
                       \o Zeros(DivisionPrecision + total.exp)
        len == IF Len(qd0) > Len(md0) THEN Len(qd0) ELSE Len(md0)
        qd  == PadLeft(qd0, len)
        md  == PadLeft(md0, len)
        d   == RunningDifference(qd, md, n, len)
    IN  /\ IsQuo(q)
        /\ Len(q.frac) = DivisionPrecision
        /\ \A i \in 1..Len(q.frac) : q.frac[i] \in 0..9
        /\ -n < 2 * d /\ 2 * d <= n
        /\ q.neg = (total.value < 0 /\ \E i \in 1..len : qd[i] # 0)

\* d is a decimal of value zero
IsZero(d) == ~IsQuo(d) /\ d.value = 0

(***************************************************************************)
(* C16: in every MonthlySummary, averageCredit is totalCredits divided by  *)
(* creditCount when creditCount > 0 and exactly zero when creditCount = 0, *)
(* and averageDebit likewise with totalDebits and debitCount; a zero count *)
(* never causes an error or a division by zero.  (Divided: as a decimal of *)
(* DivisionPrecision places, the nearest to the quotient.)                 *)
(***************************************************************************)
C16_AveragesAreQuotients ==
    \A i \in 1..Len(calcRets) :
        /\ calcRets[i].err = NoErr
        /\ \A k \in DOMAIN calcRets[i].summary.MonthlySummaries :
              LET ms == calcRets[i].summary.MonthlySummaries[k]
              IN  /\ IF ms.CreditCount > 0
                     THEN IsQuotient(ms.AverageCredit, ms.TotalCredits,
                                     ms.CreditCount)
                     ELSE IsZero(ms.AverageCredit)
                  /\ IF ms.DebitCount > 0
                     THEN IsQuotient(ms.AverageDebit, ms.TotalDebits,
                                     ms.DebitCount)
                     ELSE IsZero(ms.AverageDebit)

\* a month of three debits whose average does not end within
\* DivisionPrecision places and is rounded away from zero, and no credit
C16_Witness ==
    /\ CalcCalled
    /\ \E k \in DOMAIN calcRets[1].summary.MonthlySummaries :
          LET ms == calcRets[1].summary.MonthlySummaries[k]
          IN  /\ ms.DebitCount = 3
              /\ ms.CreditCount = 0
              /\ ms.AverageCredit = DecUninit
              /\ ms.AverageDebit.neg
              /\ ms.AverageDebit.frac[DivisionPrecision] = 7
\* two results of CalculateSummary that differ at most in processedAt
SameButProcessedAt(a, b) ==
    /\ a.err = b.err
    /\ a.summary.AccountID = b.summary.AccountID
    /\ a.summary.TotalBalance = b.summary.TotalBalance
    /\ a.summary.MonthlySummaries = b.summary.MonthlySummaries
    /\ a.summary.TotalTransactions = b.summary.TotalTransactions

(***************************************************************************)
(* C17: CalculateSummary is idempotent and read-only on its input: calls   *)
(* with the same accountId and the same transaction list return            *)
(* AccountSummary values equal in every field except processedAt, and no   *)
(* call changes the transactions.                                          *)
(***************************************************************************)
C17_IdempotentReadOnly ==
    [][/\ calcArgs' = calcArgs
       /\ \A i, j \in 1..Len(calcRets') :
             SameButProcessedAt(calcRets'[i], calcRets'[j])]_vars

\* the example summarised twice, at two instants
C17_Witness ==
    /\ Len(calcRets) = 2
    /\ CalcTxs = PdfExample
    /\ calcRets[1].summary.ProcessedAt # calcRets[2].summary.ProcessedAt
    /\ calcRets[1].summary.MonthlySummaries
          = calcRets[2].summary.MonthlySummaries
(***************************************************************************)
(* Calculator.FormatSummaryForEmail.  Formatting: Decimal.StringFixed(2)   *)
(* and the %d of fmt.Sprintf.                                              *)
(***************************************************************************)
DigitChars == <<"0", "1", "2", "3", "4", "5", "6", "7", "8", "9">>

\* the decimal numeral of a natural number
NatString(n) == [i \in 1..Len(NatDigits(n)) |-> DigitChars[(NatDigits(n)[i]) + 1]]

\* fmt.Sprintf("%d", n)
IntString(n) == IF n < 0 THEN <<"-">> \o NatString(-n) ELSE NatString(n)

\* d.rescale(-3).value: the coefficient at three places, further digits
\* cut off
Thousandths(d) ==
    IF IsQuo(d)
    THEN (IF d.neg THEN -1 ELSE 1)
            * (d.whole * 1000 + d.frac[1] * 100 + d.frac[2] * 10 + d.frac[3])
    ELSE IF d.exp >= -3 THEN d.value * Pow10(d.exp + 3)
    ELSE (IF d.value < 0 THEN -1 ELSE 1)
            * (AbsInt(d.value) \div Pow10(-3 - d.exp))

HundredthsCut(d) ==
    LET th == Thousandths(d)
    IN  (IF th < 0 THEN -1 ELSE 1) * (AbsInt(th) \div 10)

\* d.Round(2).value: half a hundredth is added to the size of the
\* coefficient at three places and the last digit dropped
Hundredths(d) ==
    LET th == Thousandths(d)
    IN  (IF th < 0 THEN -1 ELSE 1) * ((AbsInt(th) + 5) \div 10)

\* Decimal.StringFixed(2): sign, integer part, point, two digits
StringFixed2(d) ==
    LET c == Hundredths(d)
        a == AbsInt(c)
    IN  (IF c < 0 THEN <<"-">> ELSE <<>>)
           \o NatString(a \div 100)
           \o <<".">>
           \o <<DigitChars[((a % 100) \div 10) + 1], DigitChars[(a % 10) + 1]>>

\* the orders in which a range over a map with these keys can visit them
Orders(keys) ==
    {o \in [1..Cardinality(keys) -> keys] :
        \A i, j \in 1..Cardinality(keys) : o[i] = o[j] => i = j}

TotalBalanceText == <<"T", "o", "t", "a", "l", " ", "b", "a", "l", "a", "n", "c", "e", " ", "i", "s", " ">>
MonthText == <<"N", "u", "m", "b", "e", "r", " ", "o", "f", " ", "t", "r", "a", "n", "s", "a", "c", "t", "i", "o", "n", "s", " ", "i", "n", " ">>
MonthSep == <<":", " ">>
AverageDebitText == <<"A", "v", "e", "r", "a", "g", "e", " ", "d", "e", "b", "i", "t", " ", "a", "m", "o", "u", "n", "t", ":", " ">>
AverageCreditText == <<"A", "v", "e", "r", "a", "g", "e", " ", "c", "r", "e", "d", "i", "t", " ", "a", "m", "o", "u", "n", "t", ":", " ">>
Newline == <<"\n">>

RECURSIVE MonthLinesByMonthField(_, _, _)
MonthLinesByMonthField(summary, order, n) ==
    IF n = 0 THEN <<>>
    ELSE MonthLinesByMonthField(summary, order, n - 1)
            \o MonthText
            \o MonthName(summary.MonthlySummaries[order[n]].Month)
            \o MonthSep
            \o IntString(summary.MonthlySummaries[order[n]].TransactionCount)
            \o Newline

\* lines 162-165 for the first n keys visited
RECURSIVE MonthLines(_, _, _)
MonthLines(summary, order, n) ==
    IF n = 0 THEN <<>>
    ELSE MonthLines(summary, order, n - 1)
            \o MonthText \o order[n] \o MonthSep
            \o IntString(summary.MonthlySummaries[order[n]].TransactionCount)
            \o Newline

RECURSIVE FormatTotalsLast(_, _, _)
FormatTotalsLast(summary, order, n) ==
    IF n = 0 THEN NoTotals
    ELSE LET ms == summary.MonthlySummaries[order[n]]
         IN  [totalCredits |-> ms.TotalCredits,
              totalDebits  |-> ms.TotalDebits,
              creditCount  |-> ms.CreditCount,
              debitCount   |-> ms.DebitCount]

\* lines 168-178 for the first n keys visited
RECURSIVE FormatTotals(_, _, _)
FormatTotals(summary, order, n) ==
    IF n = 0 THEN NoTotals
    ELSE LET acc == FormatTotals(summary, order, n - 1)
             ms  == summary.MonthlySummaries[order[n]]
         IN  [totalCredits |-> DecAdd(acc.totalCredits, ms.TotalCredits),
              totalDebits  |-> DecAdd(acc.totalDebits, ms.TotalDebits),
              creditCount  |-> acc.creditCount + ms.CreditCount,
              debitCount   |-> acc.debitCount + ms.DebitCount]

\* order and order2 are the orders in which the range statements of lines
\* 162 and 173 visit summary.MonthlySummaries
FormatSummaryForEmail(summary, order, order2) ==
    LET n   == Len(order)
        acc == FormatTotals(summary, order2, n)
    IN  TotalBalanceText \o StringFixed2(summary.TotalBalance) \o Newline
           \o MonthLines(summary, order, n)
           \o (IF acc.debitCount > 0
               THEN AverageDebitText
                       \o StringFixed2(DecDiv(acc.totalDebits, acc.debitCount))
                       \o Newline
               ELSE <<>>)
           \o (IF acc.creditCount > 0
               THEN AverageCreditText
                       \o StringFixed2(DecDiv(acc.totalCredits, acc.creditCount))
               ELSE <<>>)
(***************************************************************************)
(* The summaries handed to FormatSummaryForEmail: those CalculateSummary   *)
(* returns for short lists and for the example, the summary the test       *)
(* builds, and summaries put together from monthly summaries that no       *)
(* transaction list yields.                                                *)
(***************************************************************************)
Ms(month, count, totalCredits, creditCount, totalDebits, debitCount) ==
    [Month            |-> month,
     Year             |-> 2023,
     TransactionCount |-> count,
     AverageCredit    |-> totalCredits,
     AverageDebit     |-> totalDebits,
     TotalCredits     |-> totalCredits,
     TotalDebits      |-> totalDebits,
     CreditCount      |-> creditCount,
     DebitCount       |-> debitCount]

\* the July and the August of the test; a month without credit or debit;
\* a month whose debits average to a quarter of a hundredth
MsPool ==
    { Ms(7, 2, Dec(605, -1), 1, Dec(-103, -1), 1),
      Ms(8, 2, Dec(10, 0), 1, Dec(-2046, -2), 1),
      Ms(1, 1, DecZero, 0, DecZero, 0),
      Ms(1, 0, Dec(5, -3), 1, Dec(-5, -3), 2) }

FormatMonths == {MonthNames[1], MonthNames[7], MonthNames[8]}

BuiltSummaries ==
    { [AccountID         |-> AccountID,
       TotalBalance      |-> b,
       MonthlySummaries  |-> m,
       ProcessedAt       |-> CHOOSE t \in Times : t.year = 2023,
       TotalTransactions |-> 0] :
         b \in {Dec(3974, -2), Dec(-5, -3)},
         m \in UNION {[keys -> MsPool] : keys \in SUBSET FormatMonths} }

\* the summary of TestCalculator_FormatSummaryForEmail
TestSummary ==
    [AccountID         |-> AccountID,
     TotalBalance      |-> Dec(3974, -2),
     MonthlySummaries  |->
         [k \in {MonthNames[7], MonthNames[8]} |->
             IF k = MonthNames[7]
             THEN Ms(7, 2, Dec(605, -1), 1, Dec(-103, -1), 1)
             ELSE Ms(8, 2, Dec(10, 0), 1, Dec(-2046, -2), 1)],
     ProcessedAt       |-> CHOOSE t \in Times : t.year = 2023,
     TotalTransactions |-> 0]

CalculatedSummaries ==
    { CalculateSummary(AccountID, txs, CHOOSE t \in Times : t.year = 2023).summary :
         txs \in StringsUpTo(TxPool, MaxFormatTxs) \cup {PdfExample} }

FormatInputs == CalculatedSummaries \cup BuiltSummaries

\* a call of FormatSummaryForEmail; each range over the map takes an order
\* of its own
CallFormatSummaryForEmail ==
    /\ formatArg # NoArgs
    /\ Len(formatRets) < MaxCalls
    /\ \E order, order2 \in Orders(DOMAIN formatArg.MonthlySummaries) :
          formatRets' = Append(formatRets,
                               FormatSummaryForEmail(formatArg, order, order2))
    /\ UNCHANGED <<storeVars, procVars, now, parserVars, source, lines, pos, lineNumber,
                   transactions, pc, ret, calcArgs, calcRets, formatArg>>

InitFormat ==
    /\ StoreIdle
    /\ ProcIdle
    /\ now \in IngestYears
    /\ amountIn = Idle /\ amountRet = Pending
    /\ dateIn = Idle /\ dateRet = Pending
    /\ RecordIdle
    /\ ReaderIdle
    /\ calcArgs = NoArgs
    /\ calcRets = <<>>
    /\ formatArg \in FormatInputs
    /\ formatRets = <<>>

NextFormat == CallFormatSummaryForEmail

SpecFormat == InitFormat /\ [][NextFormat]_vars
(***************************************************************************)
(* What the claims about the formatter are stated against: the lines of a  *)
(* returned string, a string that ends in a newline having an empty last   *)
(* line.                                                                   *)
(***************************************************************************)
RECURSIVE SplitLines(_)
SplitLines(body) ==
    LET i == IndexAny(body, {"\n"})
    IN  IF i = 0 THEN <<body>>
        ELSE <<SubSeq(body, 1, i - 1)>>
                \o SplitLines(SubSeq(body, i + 1, Len(body)))

FormatCalled == Len(formatRets) >= 1

FormatMonthCount == Cardinality(DOMAIN formatArg.MonthlySummaries)

\* the lines 2 .. 1 + number of months of a returned string, as a set
MonthLineSet(ls) == {ls[k] : k \in 2..(1 + FormatMonthCount)}

(***************************************************************************)
(* C18 as claimed: FormatSummaryForEmail is a deterministic pure function: *)
(* for every AccountSummary, also with two or more monthly groups, every   *)
(* call returns the same string, whatever the iteration order of the       *)
(* month-name mapping.                                                     *)
(***************************************************************************)
C18_SameStringEveryCall ==
    \A i, j \in 1..Len(formatRets) : formatRets[i] = formatRets[j]

(***************************************************************************)
(* C18 as amended: the string is determined by the AccountSummary up to    *)
(* the order of the month lines: every call returns the same number of     *)
(* lines, the same first line, the same set of month lines after it and    *)
(* the same lines after those; for a summary with fewer than two monthly   *)
(* groups every call returns the same string.                              *)
(***************************************************************************)
C18_SameUpToMonthOrder ==
    \A i, j \in 1..Len(formatRets) :
        LET a == SplitLines(formatRets[i])
            b == SplitLines(formatRets[j])
        IN  /\ Len(a) = Len(b)
            /\ Len(a) >= 1 + FormatMonthCount
            /\ a[1] = b[1]
            /\ MonthLineSet(a) = MonthLineSet(b)
            /\ \A k \in (2 + FormatMonthCount)..Len(a) : a[k] = b[k]
            /\ FormatMonthCount < 2 => formatRets[i] = formatRets[j]

\* two calls on a summary of two months returned the month lines in
\* different orders
C18_Witness ==
    /\ Len(formatRets) = 2
    /\ FormatMonthCount = 2
    /\ formatRets[1] # formatRets[2]
    /\ SplitLines(formatRets[1])[2] = SplitLines(formatRets[2])[3]
\* the lines after the month lines, an empty last line left out
AverageLines(body) ==
    LET ls   == SplitLines(body)
        tail == SubSeq(ls, 2 + FormatMonthCount, Len(ls))
    IN  IF tail # <<>> /\ tail[Len(tail)] = <<>>
        THEN SubSeq(tail, 1, Len(tail) - 1)
        ELSE tail

\* the sums over all monthly groups of the summary
GroupSum(field(_)) ==
    SumOver([k \in DOMAIN formatArg.MonthlySummaries |->
                field(formatArg.MonthlySummaries[k])],
            DOMAIN formatArg.MonthlySummaries)

TotalDebitUnits == GroupSum(LAMBDA ms : Units(ms.TotalDebits))
TotalCreditUnits == GroupSum(LAMBDA ms : Units(ms.TotalCredits))
TotalDebitCount == GroupSum(LAMBDA ms : ms.DebitCount)
TotalCreditCount == GroupSum(LAMBDA ms : ms.CreditCount)

\* units / n in hundredths, the nearest whole number, the one farther
\* from zero when two are equally near
NearestHundredth(units, n) ==
    LET perHundredth == Pow10(-2 - FinestExp)
        size == (2 * AbsInt(units) + perHundredth * n) \div (2 * perHundredth * n)
    IN  IF units < 0 THEN -size ELSE size

\* a number of hundredths written with two decimals
HundredthsText(c) ==
    LET a    == AbsInt(c)
        frac == NatString(a % 100)
    IN  (IF c < 0 THEN <<"-">> ELSE <<>>)
           \o NatString(a \div 100) \o <<".">>
           \o (IF Len(frac) = 1 THEN <<"0">> ELSE <<>>) \o frac

(***************************************************************************)
(* C19: FormatSummaryForEmail emits the overall average debit, (sum of     *)
(* totalDebits over all groups) / (sum of debitCount over all groups)      *)
(* fixed to 2 decimals, if and only if that debit count is > 0, and the    *)
(* overall average credit by the same rule if and only if the credit count *)
(* is > 0, the debit line before the credit line; for July (credit 60.5,   *)
(* debit -10.3) and August (credit 10, debit -20.46) the lines are         *)
(* 'Average debit amount: -15.38' and 'Average credit amount: 35.25'.      *)
(***************************************************************************)
C19_OverallAverageLines ==
    \A i \in 1..Len(formatRets) :
        /\ AverageLines(formatRets[i])
              = (IF TotalDebitCount > 0
                 THEN <<AverageDebitText
                          \o HundredthsText(NearestHundredth(TotalDebitUnits,
                                                             TotalDebitCount))>>
                 ELSE <<>>)
                \o (IF TotalCreditCount > 0
                    THEN <<AverageCreditText
                             \o HundredthsText(NearestHundredth(TotalCreditUnits,
                                                                TotalCreditCount))>>
                    ELSE <<>>)
        /\ formatArg = TestSummary =>
              AverageLines(formatRets[i])
                 = << <<"A", "v", "e", "r", "a", "g", "e", " ", "d", "e", "b", "i", "t", " ", "a", "m", "o", "u", "n", "t", ":", " ", "-", "1", "5", ".", "3", "8">>,
                      <<"A", "v", "e", "r", "a", "g", "e", " ", "c", "r", "e", "d", "i", "t", " ", "a", "m", "o", "u", "n", "t", ":", " ", "3", "5", ".", "2", "5">> >>

\* the summary of the test formatted: both lines, the debit line first
C19_Witness ==
    /\ FormatCalled
    /\ formatArg = TestSummary
    /\ TotalDebitCount = 2 /\ TotalCreditCount = 2
    /\ Len(AverageLines(formatRets[1])) = 2
    /\ HasPrefix(AverageLines(formatRets[1])[1], "A")
\* s begins with the string p
StartsWith(s, p) == Len(s) >= Len(p) /\ SubSeq(s, 1, Len(p)) = p

(***************************************************************************)
(* C20: the output of FormatSummaryForEmail always starts with the line    *)
(* 'Total balance is <totalBalance fixed to 2 decimals>' and then has      *)
(* exactly one line 'Number of transactions in <month>: <transactionCount>'*)
(* for each entry of monthlySummaries, none missing and none repeated, all *)
(* of them before any average line.                                        *)
(***************************************************************************)
C20_BalanceLineThenMonthLines ==
    \A i \in 1..Len(formatRets) :
        LET ls == SplitLines(formatRets[i])
            months == formatArg.MonthlySummaries
        IN  /\ Len(ls) >= 1 + FormatMonthCount
            /\ ls[1] = TotalBalanceText
                          \o HundredthsText(
                                NearestHundredth(Units(formatArg.TotalBalance), 1))
            /\ \A k \in DOMAIN months :
                  Cardinality({j \in 1..Len(ls) :
                                  ls[j] = MonthText \o k \o MonthSep
                                             \o NatString(months[k].TransactionCount)})
                     = 1
            /\ \A j \in 2..(1 + FormatMonthCount) : StartsWith(ls[j], MonthText)
            /\ \A j \in (2 + FormatMonthCount)..Len(ls) :
                  ~StartsWith(ls[j], MonthText)

\* a balance rounded away from zero to -0.01 above three month lines
C20_Witness ==
    /\ FormatCalled
    /\ formatArg.TotalBalance = Dec(-5, -3)
    /\ FormatMonthCount = 3
    /\ SplitLines(formatRets[1])[1]
          = TotalBalanceText \o <<"-", "0", ".", "0", "1">>
    /\ Len(AverageLines(formatRets[1])) = 2

(***************************************************************************)
(* Claims about isHeaderRow and parseTransaction, checked under SpecRecord *)
(* unless said otherwise.                                                  *)
(***************************************************************************)
HeaderCalled == headerRet # Pending
ParseCalled == txRet # Pending

\* the letters of a name in either case
UpperOf ==
    [c \in {"a", "d", "e", "i", "l", "m", "n", "o", "r", "s", "t", "u", "v", "c"} |->
        CASE c = "a" -> "A" [] c = "d" -> "D" [] c = "e" -> "E" [] c = "i" -> "I"
          [] c = "l" -> "L" [] c = "m" -> "M" [] c = "n" -> "N" [] c = "o" -> "O"
          [] c = "r" -> "R" [] c = "s" -> "S" [] c = "t" -> "T" [] c = "u" -> "U"
          [] c = "v" -> "V" [] c = "c" -> "C"]

\* s is name in some mix of upper and lower case
EqualFold(s, name) ==
    /\ Len(s) = Len(name)
    /\ \A i \in 1..Len(s) :
          \/ s[i] = name[i]
          \/ name[i] \in DOMAIN UpperOf /\ s[i] = UpperOf[name[i]]

\* field is, between white space, one of the names in some mix of cases
IsWhite(c) == c \in {" ", "\t", "\n", "\r"}

Names(field, names) ==
    \E i \in 1..Len(field) + 1, j \in 0..Len(field) :
       /\ \A k \in 1..Len(field) : (k < i \/ k > j) => IsWhite(field[k])
       /\ \E name \in names : EqualFold(SubSeq(field, i, j), name)

\* field is, between white space, a decimal integer with an optional sign
IsInteger(field) ==
    \E i \in 1..Len(field), j \in 1..Len(field) :
       /\ i <= j
       /\ \A k \in 1..Len(field) : (k < i \/ k > j) => IsWhite(field[k])
       /\ \A k \in i..j : field[k] \in Digits \/ (k = i /\ k < j /\ field[k] \in {"+", "-"})

HeaderShaped(record) ==
    /\ Len(record) = 3
    /\ \/ Names(record[1], {<<"i", "d">>, <<"t", "r", "a", "n", "s", "a", "c", "t", "i", "o", "n", "_", "i", "d">>})
       \/ Names(record[2], {<<"d", "a", "t", "e">>, <<"t", "r", "a", "n", "s", "a", "c", "t", "i", "o", "n", "_", "d", "a", "t", "e">>})
       \/ Names(record[3], {<<"a", "m", "o", "u", "n", "t">>, <<"t", "r", "a", "n", "s", "a", "c", "t", "i", "o", "n">>, <<"v", "a", "l", "u", "e">>})

(***************************************************************************)
(* C21: a row whose first field parses as an integer is never classified   *)
(* as a header by isHeaderRow, even when its second field is a date name   *)
(* or its third an amount name.                                            *)
(***************************************************************************)
C21_IntegerIdNeverHeader ==
    (HeaderCalled /\ Len(recordIn) = 3 /\ IsInteger(recordIn[1]))
        => ~headerRet.header

(***************************************************************************)
(* C22: isHeaderRow classifies a row as a header exactly when the row has  *)
(* three fields and, white space around them and case aside, the first is  *)
(* id or transaction_id, or the second date or transaction_date, or the    *)
(* third amount, transaction or value.                                     *)
(***************************************************************************)
C22_HeaderExactlyByNames ==
    HeaderCalled => (headerRet.header <=> HeaderShaped(recordIn))

\* a row with an integer id and a date name is classified as a header
C22_Witness ==
    /\ HeaderCalled
    /\ Len(recordIn) = 3
    /\ recordIn[1] = <<"1">>
    /\ recordIn[2] = <<" ", "d", "a", "t", "e">>
    /\ headerRet.header

(***************************************************************************)
(* Claims about the rows ReadTransactions skips, checked under Spec.       *)
(***************************************************************************)
\* row k is readable and has the shape of a header
RowHeaderShaped(k) == ~RowUnreadable(k) /\ HeaderShaped(RowFields(k))

\* the rows after the first that have the shape of a header and that the
\* call reaches: no data row before them fails
LaterHeaderRows ==
    {k \in 2..Len(Rows) : RowHeaderShaped(k) /\ \A j \in BadRows : k <= j}

\* the rows the loop has read so far all count in lineNumber, and all but
\* a skipped first row have given a transaction
AtMostOneSkipped ==
    pc = "loop" =>
        /\ lineNumber - Len(transactions) \in {0, 1}
        /\ lineNumber - Len(transactions) = 1 => HeaderSkipped

(***************************************************************************)
(* C23: the header check is applied to the first row only: at most one row *)
(* is ever skipped, and a header-shaped row at a later position is parsed  *)
(* as data and so aborts the ingestion with that row's line number.        *)
(***************************************************************************)
C23_LaterHeaderAborts ==
    /\ AtMostOneSkipped
    /\ Returned =>
          \A k \in LaterHeaderRows :
             /\ ret.err.msg = "failed to parse transaction"
             /\ ret.err.line = k

(***************************************************************************)
(* C23 as it holds: at most one row is ever skipped, and a header-shaped   *)
(* row at a later position is parsed as data: it aborts the ingestion with *)
(* its line number when parseTransaction rejects it, and gives the         *)
(* transaction parseTransaction makes of it otherwise.                     *)
(***************************************************************************)
C23_LaterHeaderIsData ==
    /\ AtMostOneSkipped
    /\ Returned =>
          \A k \in LaterHeaderRows :
             LET p == parseTransaction(RowFields(k), AccountID, now)
                 i == IF HeaderSkipped THEN k - 1 ELSE k
             IN  IF p.err # NoErr
                 THEN /\ ret.err.msg = "failed to parse transaction"
                      /\ ret.err.line = k
                      /\ ret.err.cause = p.err
                 ELSE \/ /\ ret.err = NoError
                         /\ ret.transactions[i] = p.tx
                      \/ /\ ret.err # NoError
                         /\ BadRows # {}
                         /\ FirstBad > k

\* a header was skipped, and the header-shaped row after it is the
\* transaction returned
C23_Witness ==
    /\ Succeeded
    /\ HeaderSkipped
    /\ Len(Rows) = 2
    /\ RowFields(2) = <<<<"i", "d">>, <<"7", "/", "1", "5">>, <<"5">>>>
    /\ Len(ret.transactions) = 1
    /\ ret.transactions[1].Description = <<"Transaction ", "i", "d">>

\* the errors of parseTransaction by the kind the specification gives them
MissingIdentifier == {"transaction ID cannot be empty"}
InvalidDate == {"invalid date format"}

\* the field without the white space around it
Bare(field) ==
    LET inner == {k \in 1..Len(field) : ~IsWhite(field[k])}
    IN  IF inner = {} THEN <<>>
        ELSE SubSeq(field, CHOOSE k \in inner : \A j \in inner : k <= j,
                           CHOOSE k \in inner : \A j \in inner : k >= j)

(***************************************************************************)
(* C24: parseTransaction makes its checks in a fixed order and returns an  *)
(* error and no transaction at the first that fails: a field count other   *)
(* than 3, an id empty after trimming, a date of no layout, an amount that *)
(* parseAmount rejects.  When all pass, the transaction has the caller's   *)
(* accountId, the parsed date, amount and kind, and a description that     *)
(* embeds the id field.                                                    *)
(***************************************************************************)
C24_ChecksInOrder ==
    ParseCalled =>
        LET r == txRet.ret
            d == parseDate(Bare(recordIn[2]), now)
            a == parseAmount(Bare(recordIn[3]))
        IN  /\ r.err # NoErr => r.tx = NoTransaction
            /\ IF Len(recordIn) # 3 THEN r.err \in MalformedRecord
               ELSE IF \A k \in 1..Len(recordIn[1]) : IsWhite(recordIn[1][k])
               THEN r.err \in MissingIdentifier
               ELSE IF ~d.ok THEN r.err \in InvalidDate
               ELSE IF a.err # NoErr
               THEN /\ r.err = a.err
                    /\ r.err \in InvalidAmount \cup AmountOutOfRange
                                   \cup AmountPrecisionExceeded
               ELSE /\ r.err = NoErr
                    /\ r.tx.AccountID = txRet.accountID
                    /\ r.tx.Date = [year |-> d.year, month |-> d.month, day |-> d.day]
                    /\ r.tx.Amount = a.amount
                    /\ r.tx.Type = a.type
                    /\ r.tx.Description = <<"Transaction ">> \o Bare(recordIn[1])

\* a record whose date and amount are both bad is rejected for its date
C24_Witness ==
    /\ ParseCalled
    /\ recordIn = <<<<" ", "7", " ">>, <<"x">>, <<"a", "b", "c">>>>
    /\ txRet.ret.err \in InvalidDate

(***************************************************************************)
(* Claims about the order of the input of CalculateSummary, checked under  *)
(* SpecCalc.  What a call returned is compared with CalculateSummary of    *)
(* every reordering of its input, on the return of the first call: later   *)
(* calls return the same (C17).                                            *)
(***************************************************************************)
\* the lists that hold the transactions of txs in another order
Reorderings(txs) ==
    {[i \in 1..Len(txs) |-> txs[p[i]]] : p \in Orders(1..Len(txs))}

\* the month summary without its year
WithoutYear(ms) ==
    [f \in DOMAIN ms \ {"Year"} |-> ms[f]]

\* a and b are equal in every field except processedAt and the year of
\* each month
SameButProcessedAtAndYear(a, b) ==
    /\ a.err = b.err
    /\ a.summary.AccountID = b.summary.AccountID
    /\ a.summary.TotalBalance = b.summary.TotalBalance
    /\ a.summary.TotalTransactions = b.summary.TotalTransactions
    /\ DOMAIN a.summary.MonthlySummaries = DOMAIN b.summary.MonthlySummaries
    /\ \A k \in DOMAIN a.summary.MonthlySummaries :
          WithoutYear(a.summary.MonthlySummaries[k])
             = WithoutYear(b.summary.MonthlySummaries[k])

\* the years of the transactions of the group of key k
GroupYears(k) == {CalcTxs[i].Date.year : i \in Group(k)}

(***************************************************************************)
(* C25: CalculateSummary does not depend on the order of its input: for    *)
(* every list and every permutation of it the two AccountSummary values    *)
(* are equal in every field except processedAt, the month and year of      *)
(* every MonthlySummary included.                                          *)
(***************************************************************************)
C25_OrderIndependent ==
    Len(calcRets) = 1 =>
        \A txs \in Reorderings(CalcTxs) :
            SameButProcessedAt(
                CalculateSummary(calcArgs.accountID, txs,
                                 calcRets[1].summary.ProcessedAt),
                calcRets[1])

(***************************************************************************)
(* C25 as it holds: for every list and every permutation of it the two     *)
(* AccountSummary values are equal in every field except processedAt and   *)
(* the year of the MonthlySummary of a month name whose transactions are   *)
(* of several years; the month of every MonthlySummary is equal.           *)
(***************************************************************************)
C25_OrderIndependentButYear ==
    Len(calcRets) = 1 =>
        \A txs \in Reorderings(CalcTxs) :
            LET other == CalculateSummary(calcArgs.accountID, txs,
                                          calcRets[1].summary.ProcessedAt)
            IN  /\ SameButProcessedAtAndYear(other, calcRets[1])
                /\ \A k \in DOMAIN other.summary.MonthlySummaries :
                       Cardinality(GroupYears(k)) = 1 =>
                           other.summary.MonthlySummaries[k].Year
                              = calcRets[1].summary.MonthlySummaries[k].Year

\* two months of three transactions, the Julys of two years, summarised
C25_Witness ==
    /\ Len(calcRets) = 1
    /\ Len(CalcTxs) = 3
    /\ GroupYears(MonthName(7)) = {2023, 2024}
    /\ Cardinality(DOMAIN calcRets[1].summary.MonthlySummaries) = 2
    /\ calcRets[1].summary.MonthlySummaries[MonthName(7)].Year = 2024

\* the first position of the input whose month name is k
FirstOfGroup(k) == CHOOSE i \in Group(k) : \A j \in Group(k) : i <= j

(***************************************************************************)
(* C26: the month and year of each MonthlySummary are those of the first   *)
(* transaction, in input order, whose month name is the key of the group;  *)
(* later transactions of the group do not change them, and the month is    *)
(* always the month the key names.                                         *)
(***************************************************************************)
C26_MonthAndYearOfFirst ==
    \A i \in 1..Len(calcRets) :
        LET months == calcRets[i].summary.MonthlySummaries
        IN  \A k \in DOMAIN months :
               /\ Group(k) # {}
               /\ months[k].Month = CalcTxs[FirstOfGroup(k)].Date.month
               /\ months[k].Year = CalcTxs[FirstOfGroup(k)].Date.year
               /\ MonthName(months[k].Month) = k

\* a July of 2024 before a July of 2023: the summary of July has year 2024
C26_Witness ==
    /\ CalcCalled
    /\ Len(CalcTxs) = 2
    /\ CalcTxs[1].Date = [year |-> 2024, month |-> 7, day |-> 1]
    /\ CalcTxs[2].Date = [year |-> 2023, month |-> 7, day |-> 15]
    /\ calcRets[1].summary.MonthlySummaries[MonthName(7)].Year = 2024

(***************************************************************************)
(* The sqlite repository.  The database is the rows of the accounts table, *)
(* by their primary key, and the rows of the transactions table.  Every    *)
(* statement takes effect when it is run: CreateBatch opens no database    *)
(* transaction.  A statement can fail for reasons outside the program (the *)
(* disk, a lock, a constraint); which statement of a call fails, if any,   *)
(* is the argument fail.  The time stamps of the rows are not part of the  *)
(* model.                                                                  *)
(***************************************************************************)
MaxStoreCalls == 2

\* batchSize := 100
BatchSize == 100

\* a transaction as parseTransaction makes it, with its ID
WithID(tx, id) ==
    [ID          |-> id,
     AccountID   |-> tx.AccountID,
     Date        |-> tx.Date,
     Amount      |-> tx.Amount,
     Type        |-> tx.Type,
     Description |-> tx.Description]

StoredTx(id, accountID, amount, type) ==
    WithID([Tx(2023, 7, 15, amount, type) EXCEPT !.AccountID = accountID], id)

\* the elements of a list
Range(seq) == {seq[i] : i \in 1..Len(seq)}

\* var totalBalance decimal.Decimal; totalBalance = totalBalance.Add(tx.Amount)
\* for each tx: the turns i..end of the loop, the total so far being a
\* value at every turn
RECURSIVE BalanceFrom(_, _, _, _)
BalanceFrom(totalBalance, txs, i, end) ==
    IF totalBalance.exp = totalBalance.exp /\ i > end THEN totalBalance
    ELSE BalanceFrom(DecAdd(totalBalance, txs[i].Amount), txs, i + 1, end)

\* the loop from turn i on, ten turns at a time
RECURSIVE BalanceByTens(_, _, _)
BalanceByTens(totalBalance, txs, i) ==
    IF totalBalance.exp = totalBalance.exp /\ i > Len(txs) THEN totalBalance
    ELSE LET end == IF i + 9 > Len(txs) THEN Len(txs) ELSE i + 9
         IN  BalanceByTens(BalanceFrom(totalBalance, txs, i, end), txs, i + 10)

BatchBalance(txs) == BalanceByTens(DecUninit, txs, 1)

\* the statement of a call that fails
NoFail == [step |-> "none", batch |-> 0]
FailPoints ==
    {NoFail, [step |-> "account", batch |-> 0], [step |-> "delete", batch |-> 0]}
       \cup {[step |-> "insert", batch |-> k] : k \in 1..2}

\* accountRepository.CreateOrUpdate: the row of the account is created, or
\* its Email, Name and CurrentBalance are updated
CreateOrUpdate(d, account) ==
    [d EXCEPT !.accounts =
        [id \in DOMAIN d.accounts \cup {account.ID} |->
            IF id # account.ID THEN d.accounts[id]
            ELSE [Email          |-> account.Email,
                  Name           |-> account.Name,
                  CurrentBalance |-> account.CurrentBalance]]]

\* an INSERT of the rows fails on a primary key that is taken
KeyTaken(d, batch) ==
    LET ids == {batch[i].ID : i \in 1..Len(batch)}
    IN  \/ Cardinality(ids) # Len(batch)
        \/ ids \cap {t.ID : t \in d.transactions} # {}

\* the loop of CreateInBatches calls, from index i
RECURSIVE InsertBatches(_, _, _, _)
InsertBatches(d, txs, i, fail) ==
    IF i >= Len(txs) THEN [db |-> d, err |-> NoErr]
    ELSE
    LET end   == IF i + BatchSize > Len(txs) THEN Len(txs) ELSE i + BatchSize
        batch == SubSeq(txs, i + 1, end)
    IN  IF fail = [step |-> "insert", batch |-> (i \div BatchSize) + 1]
           \/ KeyTaken(d, batch)
        THEN [db |-> d, err |-> "failed to create transaction batch"]
        ELSE InsertBatches([d EXCEPT !.transactions = @ \cup Range(batch)],
                           txs, end, fail)

\* CreateBatch without the deletion of the existing transactions
CreateBatchKeepsExisting(d, txs, accountEmail, fail) ==
    IF Len(txs) = 0 THEN [db |-> d, err |-> NoErr]
    ELSE
    LET accountID == txs[1].AccountID
        account   == [ID             |-> accountID,
                      Email          |-> accountEmail,
                      Name           |-> <<"Account ", accountID>>,
                      CurrentBalance |-> BatchBalance(txs)]
    IN  IF fail.step = "account"
        THEN [db |-> d, err |-> "failed to create/update account"]
        ELSE
        LET d1 == CreateOrUpdate(d, account)
        IN  IF fail.step = "delete"
            THEN [db |-> d1, err |-> "failed to delete existing transactions"]
            ELSE InsertBatches(d1, txs, 0, fail)

\* transactionRepository.CreateBatch
CreateBatch(d, txs, accountEmail, fail) ==
    IF Len(txs) = 0 THEN [db |-> d, err |-> NoErr]
    ELSE
    LET accountID == txs[1].AccountID
        account   == [ID             |-> accountID,
                      Email          |-> accountEmail,
                      Name           |-> <<"Account ", accountID>>,
                      CurrentBalance |-> BatchBalance(txs)]
    IN  IF fail.step = "account"
        THEN [db |-> d, err |-> "failed to create/update account"]
        ELSE
        LET d1 == CreateOrUpdate(d, account)
        IN  IF fail.step = "delete"
            THEN [db |-> d1, err |-> "failed to delete existing transactions"]
            ELSE
            LET d2 == [d1 EXCEPT !.transactions =
                                    {t \in @ : t.AccountID # accountID}]
            IN  InsertBatches(d2, txs, 0, fail)

\* transactionRepository.Count
Count(d, accountID) ==
    Cardinality({t \in d.transactions : t.AccountID = accountID})

\* the batches CreateBatch is called with: none, one and two transactions
\* of an account, a transaction of the other account, one whose ID is
\* that of a transaction of the first account, transactions of two
\* accounts, one transaction twice, and more than BatchSize transactions
Tx1 == StoredTx(1, AccountID, Dec(605, -1), Credit)
Tx2 == StoredTx(2, AccountID, Dec(-103, -1), Debit)
Tx3 == StoredTx(3, "other-account", Dec(5, 0), Credit)
Tx4 == StoredTx(1, "other-account", Dec(7, 0), Credit)
Tx5 == StoredTx(4, AccountID, Dec(10, 0), Credit)

BigBatch == [i \in 1..(BatchSize + 1) |-> StoredTx(100 + i, AccountID, Dec(1, 0), Credit)]

BatchPool ==
    { <<>>, <<Tx1>>, <<Tx1, Tx2>>, <<Tx5>>, <<Tx3>>, <<Tx4>>, <<Tx1, Tx3>>,
      <<Tx2, Tx2>>, BigBatch }

Emails == {"a@example.com", "b@example.com"}

\* a call of CreateBatch
CallCreateBatch ==
    /\ storeCalls < MaxStoreCalls
    /\ \E txs \in BatchPool, accountEmail \in Emails, fail \in FailPoints :
          LET r == CreateBatch(db, txs, accountEmail, fail)
          IN  /\ db' = r.db
              /\ storeErr' = r.err
              /\ storeArg' = [transactions |-> txs, accountEmail |-> accountEmail]
    /\ storeCalls' = storeCalls + 1
    /\ UNCHANGED <<now, parserVars, source, lines, pos, lineNumber,
                   transactions, pc, ret, calcVars, procVars>>

InitStore ==
    /\ now \in IngestYears
    /\ amountIn = Idle /\ amountRet = Pending
    /\ dateIn = Idle /\ dateRet = Pending
    /\ RecordIdle
    /\ ReaderIdle
    /\ CalcIdle
    /\ StoreIdle
    /\ ProcIdle

NextStore == CallCreateBatch

SpecStore == InitStore /\ [][NextStore]_vars

(***************************************************************************)
(* Claims about CreateBatch, checked under SpecStore.                      *)
(***************************************************************************)
\* the step is a call of CreateBatch
StoreCalled == storeCalls' = storeCalls + 1

\* the stored transactions of an account, and its row if it has one
TxsOf(d, accountID) == {t \in d.transactions : t.AccountID = accountID}

RowOf(d, accountID) ==
    IF accountID \in DOMAIN d.accounts THEN d.accounts[accountID] ELSE NoArgs

\* the account of the batch of the call
BatchAccount(arg) == arg.transactions[1].AccountID

\* a batch that is not empty and whose transactions are all of one account
OneAccount(arg) ==
    /\ Len(arg.transactions) > 0
    /\ \A i \in 1..Len(arg.transactions) :
          arg.transactions[i].AccountID = BatchAccount(arg)

\* the sum of the amounts of the batch, in units: each amount times the
\* number of transactions that have it
BatchUnits(arg) ==
    LET units  == [i \in 1..Len(arg.transactions) |->
                      Units(arg.transactions[i].Amount)]
        values == {units[i] : i \in DOMAIN units}
    IN  SumOver([v \in values |->
                    v * Cardinality({i \in DOMAIN units : units[i] = v})],
                values)

C30_AllOrNothing ==
    [][(StoreCalled /\ storeErr' # NoErr) =>
          LET A == BatchAccount(storeArg')
          IN  /\ RowOf(db', A) = RowOf(db, A)
              /\ TxsOf(db', A) = TxsOf(db, A)]_vars

(***************************************************************************)
(* The processor.  ProcessBatch hands its files to ProcessFile in order;   *)
(* ProcessFile calls the reader, the repository when there is one, the     *)
(* calculator and the email service.  There is one action per call of a    *)
(* collaborator, with what follows the call up to the next one.  Each call *)
(* is written to procCalls with its outcome.  A file is its path and what  *)
(* opening it yields.                                                      *)
(***************************************************************************)
MaxFiles == 3

\* the loop of ReadTransactions, from the record after pos
RECURSIVE ReadLoop(_, _, _, _, _, _)
ReadLoop(ls, p, line, txs, accountID, currentYear) ==
    LET r == csvRead(ls, p)
    IN  IF r.eof
        THEN IF Len(txs) = 0
             THEN ReadFail("no valid transactions found in CSV file", 0, NoErr)
             ELSE [transactions |-> txs, err |-> NoError]
        ELSE IF r.err # NoErr
        THEN ReadFail("failed to read CSV record", line + 1, r.err)
        ELSE IF line + 1 = 1 /\ isHeaderRow(r.record)
        THEN ReadLoop(ls, r.pos, line + 1, txs, accountID, currentYear)
        ELSE
        LET parsed == parseTransaction(r.record, accountID, currentYear)
        IN  IF parsed.err # NoErr
            THEN ReadFail("failed to parse transaction", line + 1, parsed.err)
            ELSE ReadLoop(ls, r.pos, line + 1, AppendTx(txs, parsed.tx),
                          accountID, currentYear)

\* Reader.ReadTransactions on a file
ReadTransactions(file, accountID, currentYear) ==
    IF file.missing THEN ReadFail("failed to open CSV file", 0, "open")
    ELSE ReadLoop(file.lines, 0, 0, <<>>, accountID, currentYear)

\* the index of the last c in s, 0 when there is none
LastIndex(s, c) ==
    LET at == {i \in 1..Len(s) : s[i] = c}
    IN  IF at = {} THEN 0 ELSE CHOOSE i \in at : \A j \in at : j <= i

\* s without the slashes at its end
RECURSIVE StripSlashes(_)
StripSlashes(s) ==
    IF Len(s) > 0 /\ s[Len(s)] = "/" THEN StripSlashes(SubSeq(s, 1, Len(s) - 1))
    ELSE s

\* filepath.Base: the last element of the path
Base(path) ==
    IF path = <<>> THEN <<".">>
    ELSE LET s == StripSlashes(path)
         IN  IF s = <<>> THEN <<"/">>
             ELSE SubSeq(s, LastIndex(s, "/") + 1, Len(s))

\* filepath.Ext: the suffix of the last element from its last dot
Ext(path) ==
    LET dot == LastIndex(path, ".")
    IN  IF dot > 0 /\ dot > LastIndex(path, "/")
        THEN SubSeq(path, dot, Len(path))
        ELSE <<>>

\* strings.TrimSuffix
TrimSuffix(s, suffix) ==
    IF Len(suffix) <= Len(s)
       /\ SubSeq(s, Len(s) - Len(suffix) + 1, Len(s)) = suffix
    THEN SubSeq(s, 1, Len(s) - Len(suffix))
    ELSE s

extractAccountIDFromFilename(filePath) ==
    LET filename == Base(filePath)
        name     == TrimSuffix(filename, Ext(filename))
    IN  IF name = <<>> \/ name = <<"t", "r", "a", "n", "s", "a", "c", "t", "i", "o", "n", "s">>
        THEN <<"d", "e", "f", "a", "u", "l", "t", "-", "a", "c", "c", "o", "u", "n", "t">>
        ELSE name

\* the files: two transactions of one month under a header; one
\* transaction in a file named transactions; a second row of no date; a
\* file that cannot be opened; another file of the account of the first
File(path, missing, ls) == [path |-> path, missing |-> missing, lines |-> ls]

FilePool ==
    { File(<<"d", "a", "t", "a", "/", "t", "x", "n", "s", ".", "c", "s", "v">>, FALSE,
           <<<<"I", "d", ",", "D", "a", "t", "e", ",", "T", "r", "a", "n", "s", "a", "c", "t", "i", "o", "n">>, <<"1", ",", "7", "/", "1", "5", ",", "+", "6", "0", ".", "5">>, <<"2", ",", "7", "/", "2", "8", ",", "-", "1", "0", ".", "3">>>>),
      File(<<"t", "r", "a", "n", "s", "a", "c", "t", "i", "o", "n", "s", ".", "c", "s", "v">>, FALSE, <<<<"3", ",", "8", "/", "2", ",", "5">>>>),
      File(<<"b", "a", "d", ".", "c", "s", "v">>, FALSE, <<<<"1", ",", "7", "/", "1", "5", ",", "+", "6", "0", ".", "5">>, <<"3", ",", "x", ",", "5">>>>),
      File(<<"m", "i", "s", "s", "i", "n", "g", ".", "c", "s", "v">>, TRUE, <<>>),
      File(<<"o", "l", "d", "/", "t", "x", "n", "s", ".", "c", "s", "v">>, FALSE, <<<<"4", ",", "8", "/", "1", "3", ",", "+", "1", "0">>>>) }

\* Processor.recipientEmail
RecipientEmail == "a@example.com"

\* the transactions read from the file of index n, each with the ID
\* parseTransaction draws for it
WithIDs(txs, n) == [i \in 1..Len(txs) |-> WithID(txs[i], <<n, i>>)]

\* a call of a collaborator made for the file of index n
Call(op, n, ok, fail, body) ==
    [op |-> op, file |-> n, ok |-> ok, fail |-> fail, body |-> body]

\* return fmt.Errorf("failed to process file %s: %w", filePath, err)
BatchFail(filePath, cause) ==
    [err |-> "failed to process file", file |-> filePath, cause |-> cause]

BatchNil == [err |-> NoErr, file |-> <<>>, cause |-> NoErr]

\* the account of the file ProcessFile is working on
accountIDOfFile == extractAccountIDFromFilename(filePaths[fileIndex].path)

procFrame == <<now, parserVars, source, lines, pos, lineNumber, transactions, pc,
               ret, calcVars, storeArg, storeErr, storeCalls, repo, filePaths>>

\* ProcessFileRead, going on to the next file when the read fails
ProcessFileReadSkipsFailed ==
    /\ procPc = "loop"
    /\ fileIndex < Len(filePaths)
    /\ fileIndex' = fileIndex + 1
    /\ LET file      == filePaths[fileIndex + 1]
           accountID == extractAccountIDFromFilename(file.path)
           r         == ReadTransactions(file, accountID, now)
       IN  /\ procCalls' = Append(procCalls,
                 Call("ReadTransactions", fileIndex + 1, r.err = NoError, NoFail, <<>>))
           /\ IF r.err # NoError
              THEN /\ procPc' = "loop"
                   /\ UNCHANGED <<batchRet, procTxs>>
              ELSE /\ procTxs' = WithIDs(r.transactions, fileIndex + 1)
                   /\ procPc' = IF repo THEN "store" ELSE "summarise"
                   /\ UNCHANGED batchRet
    /\ UNCHANGED <<procFrame, db, procBody>>

\* ProcessBatch takes the next file and ProcessFile reads its transactions
ProcessFileRead ==
    /\ procPc = "loop"
    /\ fileIndex < Len(filePaths)
    /\ fileIndex' = fileIndex + 1
    /\ LET file      == filePaths[fileIndex + 1]
           accountID == extractAccountIDFromFilename(file.path)
           r         == ReadTransactions(file, accountID, now)
       IN  /\ procCalls' = Append(procCalls,
                 Call("ReadTransactions", fileIndex + 1, r.err = NoError, NoFail, <<>>))
           /\ IF r.err # NoError
              THEN /\ procPc' = "done"
                   /\ batchRet' = BatchFail(file.path,
                                     "failed to read transactions from CSV")
                   /\ UNCHANGED procTxs
              ELSE /\ procTxs' = WithIDs(r.transactions, fileIndex + 1)
                   /\ procPc' = IF repo THEN "store" ELSE "summarise"
                   /\ UNCHANGED batchRet
    /\ UNCHANGED <<procFrame, db, procBody>>

\* p.transactionRepo.CreateBatch(transactions, p.recipientEmail)
ProcessFileStore ==
    /\ procPc = "store"
    /\ \E fail \in FailPoints :
          LET r == CreateBatch(db, procTxs, RecipientEmail, fail)
          IN  /\ db' = r.db
              /\ procCalls' = Append(procCalls,
                    Call("CreateBatch", fileIndex, r.err = NoErr, fail, <<>>))
              /\ IF r.err # NoErr
                 THEN /\ procPc' = "done"
                      /\ batchRet' = BatchFail(filePaths[fileIndex].path,
                                        "failed to store transactions in database")
                 ELSE /\ procPc' = "count"
                      /\ UNCHANGED batchRet
    /\ UNCHANGED <<procFrame, fileIndex, procTxs, procBody>>

\* ProcessFileCount, returning the error of Count
ProcessFileCountFailStops ==
    /\ procPc = "count"
    /\ \E ok \in BOOLEAN :
          /\ procCalls' = Append(procCalls, Call("Count", fileIndex, ok, NoFail, <<>>))
          /\ IF ok
             THEN procPc' = "summarise" /\ UNCHANGED batchRet
             ELSE /\ procPc' = "done"
                  /\ batchRet' = BatchFail(filePaths[fileIndex].path,
                                    "failed to count transactions")
    /\ UNCHANGED <<procFrame, db, fileIndex, procTxs, procBody>>

\* p.transactionRepo.Count(accountID): its error is logged, its count too
ProcessFileCount ==
    /\ procPc = "count"
    /\ \E ok \in BOOLEAN :
          procCalls' = Append(procCalls, Call("Count", fileIndex, ok, NoFail, <<>>))
    /\ procPc' = "summarise"
    /\ UNCHANGED <<procFrame, db, fileIndex, procTxs, procBody, batchRet>>

\* p.calculator.CalculateSummary and FormatSummaryForEmail
ProcessFileSummarise ==
    /\ procPc = "summarise"
    /\ \E t \in Times :
          LET r == CalculateSummary(accountIDOfFile, procTxs, t)
          IN  /\ procCalls' = Append(procCalls,
                    Call("CalculateSummary", fileIndex, r.err = NoErr, NoFail, <<>>))
              /\ IF r.err # NoErr
                 THEN /\ procPc' = "done"
                      /\ batchRet' = BatchFail(filePaths[fileIndex].path,
                                        "failed to calculate summary")
                      /\ UNCHANGED procBody
                 ELSE /\ \E order, order2 \in Orders(DOMAIN r.summary.MonthlySummaries) :
                            procBody' = FormatSummaryForEmail(r.summary, order, order2)
                      /\ procPc' = "send"
                      /\ UNCHANGED batchRet
    /\ UNCHANGED <<procFrame, db, fileIndex, procTxs>>

\* p.emailService.SendSummaryEmail(subject, emailBody); ProcessFile returns
ProcessFileSend ==
    /\ procPc = "send"
    /\ \E ok \in BOOLEAN :
          /\ procCalls' = Append(procCalls,
                Call("SendSummaryEmail", fileIndex, ok, NoFail, procBody))
          /\ IF ok
             THEN procPc' = "loop" /\ UNCHANGED batchRet
             ELSE /\ procPc' = "done"
                  /\ batchRet' = BatchFail(filePaths[fileIndex].path,
                                    "failed to send summary email")
    /\ UNCHANGED <<procFrame, db, fileIndex, procTxs, procBody>>

\* the loop of ProcessBatch is over: return nil
ProcessBatchReturn ==
    /\ procPc = "loop"
    /\ fileIndex = Len(filePaths)
    /\ procPc' = "done"
    /\ batchRet' = BatchNil
    /\ UNCHANGED <<procFrame, db, fileIndex, procTxs, procBody, procCalls>>

InitProcess ==
    /\ now \in IngestYears
    /\ amountIn = Idle /\ amountRet = Pending
    /\ dateIn = Idle /\ dateRet = Pending
    /\ RecordIdle
    /\ ReaderIdle
    /\ CalcIdle
    /\ StoreIdle
    /\ repo \in BOOLEAN
    /\ filePaths \in StringsUpTo(FilePool, MaxFiles)
    /\ fileIndex = 0
    /\ procPc = "loop"
    /\ procTxs = <<>>
    /\ procBody = <<>>
    /\ procCalls = <<>>
    /\ batchRet = Pending

NextProcess ==
    \/ ProcessFileRead
    \/ ProcessFileStore
    \/ ProcessFileCount
    \/ ProcessFileSummarise
    \/ ProcessFileSend
    \/ ProcessBatchReturn

SpecProcess == InitProcess /\ [][NextProcess]_vars

(***************************************************************************)
(* Claims about ProcessFile and ProcessBatch, checked under SpecProcess.   *)
(* The ProcessFile call of index n is the one ProcessBatch makes for the   *)
(* n-th file of its list.                                                  *)
(***************************************************************************)
\* the calls ProcessFile made for file n, in order, and their names
CallsOf(n) == SelectSeq(procCalls, LAMBDA c : c.file = n)

OpsOf(n) == [i \in 1..Len(CallsOf(n)) |-> CallsOf(n)[i].op]

\* the calls of a ProcessFile that succeeds
Steps ==
    IF repo
    THEN <<"ReadTransactions", "CreateBatch", "Count", "CalculateSummary",
           "SendSummaryEmail">>
    ELSE <<"ReadTransactions", "CalculateSummary", "SendSummaryEmail">>

\* op was called for file n; it was called and succeeded
WasCalled(n, op) == \E i \in 1..Len(CallsOf(n)) : CallsOf(n)[i].op = op

CallOk(n, op) ==
    \E i \in 1..Len(CallsOf(n)) : CallsOf(n)[i].op = op /\ CallsOf(n)[i].ok

\* the ProcessFile call for file n has returned; it returned nil
FileReturned(n) == n < fileIndex \/ (n = fileIndex /\ procPc \in {"loop", "done"})

FileSucceeded(n) == FileReturned(n) /\ CallOk(n, "SendSummaryEmail")

\* the account and the transactions of file n
AccountOf(n) == extractAccountIDFromFilename(filePaths[n].path)

BatchOf(n) ==
    WithIDs(ReadTransactions(filePaths[n], AccountOf(n), now).transactions, n)

\* the database the CreateBatch calls among the first k calls made
RECURSIVE StoreReplay(_)
StoreReplay(k) ==
    IF k = 0 THEN EmptyDB
    ELSE LET c == procCalls[k]
         IN  IF c.op = "CreateBatch"
             THEN CreateBatch(StoreReplay(k - 1), BatchOf(c.file),
                              RecipientEmail, c.fail).db
             ELSE StoreReplay(k - 1)

(***************************************************************************)
(* C27: ProcessFile calls read, store (only with a repository),            *)
(* summarise and send in this order, each only if every earlier one        *)
(* succeeded, a failure of Count excepted; SendSummaryEmail is called at   *)
(* most once per ProcessFile call, and is called if and only if            *)
(* ReadTransactions succeeded and CreateBatch, when there is a repository, *)
(* succeeded; a failed read causes no store write and no email.            *)
(***************************************************************************)
C27_StepsInOrder ==
    /\ db = StoreReplay(Len(procCalls))
    /\ \A n \in 1..fileIndex :
          LET calls == CallsOf(n)
          IN  /\ Len(calls) <= Len(Steps)
              /\ OpsOf(n) = SubSeq(Steps, 1, Len(calls))
              /\ \A i \in 1..Len(calls) - 1 : calls[i].ok \/ calls[i].op = "Count"
              /\ WasCalled(n, "CreateBatch") => repo
              /\ Cardinality({i \in 1..Len(calls) : calls[i].op = "SendSummaryEmail"}) <= 1
              /\ FileReturned(n) =>
                    /\ WasCalled(n, "SendSummaryEmail")
                          <=> /\ CallOk(n, "ReadTransactions")
                              /\ repo => CallOk(n, "CreateBatch")
                    /\ ~CallOk(n, "ReadTransactions") => Len(calls) = 1

\* with a repository, a file whose Count failed and whose email was sent
C27_Witness ==
    /\ repo
    /\ fileIndex = 1
    /\ FileReturned(1)
    /\ OpsOf(1) = Steps
    /\ CallsOf(1)[2].ok
    /\ ~CallsOf(1)[3].ok
    /\ CallsOf(1)[5].ok
    /\ CallsOf(1)[5].body # <<>>

(***************************************************************************)
(* C28: ProcessBatch processes its files in list order and stops at the    *)
(* first whose ProcessFile fails: no later file is read, stored or         *)
(* emailed, the error names the failing file, and what earlier files       *)
(* stored and sent is not undone; it returns nil only if every file        *)
(* succeeded.                                                              *)
(***************************************************************************)
C28_StopsAtFirstFailure ==
    /\ \A i \in 1..Len(procCalls) :
          /\ procCalls[i].file \in 1..fileIndex
          /\ i > 1 => procCalls[i - 1].file <= procCalls[i].file
    /\ \A n \in 1..fileIndex - 1 : FileSucceeded(n)
    /\ batchRet # Pending =>
          /\ db = StoreReplay(Len(procCalls))
          /\ IF batchRet.err = NoErr
             THEN /\ fileIndex = Len(filePaths)
                  /\ \A n \in 1..Len(filePaths) : FileSucceeded(n)
             ELSE /\ fileIndex >= 1
                  /\ ~FileSucceeded(fileIndex)
                  /\ batchRet.file = filePaths[fileIndex].path
          /\ \A n \in 1..fileIndex - 1 :
                (repo /\ \A m \in n + 1..fileIndex : AccountOf(m) # AccountOf(n)) =>
                    /\ TxsOf(db, AccountOf(n)) = Range(BatchOf(n))
                    /\ AccountOf(n) \in DOMAIN db.accounts

\* the second of three files fails: the first is stored and its email
\* sent, the third is not read, the error names the second
C28_Witness ==
    /\ repo
    /\ Len(filePaths) = 3
    /\ fileIndex = 2
    /\ batchRet # Pending
    /\ batchRet.err # NoErr
    /\ batchRet.file = filePaths[2].path
    /\ FileSucceeded(1)
    /\ TxsOf(db, AccountOf(1)) = Range(BatchOf(1))
    /\ Len(BatchOf(1)) = 2
    /\ CallsOf(3) = <<>>

=============================================================================
